---- MODULE Spec2Model ----
(***************************************************************************)
(* Model of repo_concat: the file selection engine (pattern matcher, text  *)
(* classifier, filter pipeline) in its two implementations, package main   *)
(* (the command line) and package tui, and the repository cache.           *)
(*                                                                         *)
(* Strings are sequences of one-character strings, so that prefix tests,   *)
(* splitting, quoting and regular-expression matching are computed on the  *)
(* characters, as the Go code computes them.                               *)
(***************************************************************************)
EXTENDS Integers, Sequences, FiniteSets, Bags, TLC

(***************************************************************************)
(* package strings / path/filepath                                         *)
(***************************************************************************)

\* strings.HasPrefix
HasPrefix(s, prefix) ==
    /\ Len(prefix) <= Len(s)
    /\ \A i \in 1..Len(prefix) : s[i] = prefix[i]

\* strings.HasSuffix
HasSuffix(s, suffix) ==
    /\ Len(suffix) <= Len(s)
    /\ \A i \in 1..Len(suffix) : s[Len(s) - Len(suffix) + i] = suffix[i]

\* strings.TrimPrefix
TrimPrefix(s, prefix) ==
    IF HasPrefix(s, prefix) THEN SubSeq(s, Len(prefix) + 1, Len(s)) ELSE s

\* strings.TrimSuffix
TrimSuffix(s, suffix) ==
    IF HasSuffix(s, suffix) THEN SubSeq(s, 1, Len(s) - Len(suffix)) ELSE s

\* strings.Contains for a one-character substring
ContainsChar(s, c) == \E i \in 1..Len(s) : s[i] = c

\* strings.ReplaceAll(s, old, new), old non-empty: the non-overlapping
\* occurrences of old, found from the left, are replaced.
RECURSIVE ReplaceAll(_, _, _)
ReplaceAll(s, old, new) ==
    IF Len(s) = 0 THEN << >>
    ELSE IF HasPrefix(s, old)
         THEN new \o ReplaceAll(SubSeq(s, Len(old) + 1, Len(s)), old, new)
         ELSE <<s[1]>> \o ReplaceAll(Tail(s), old, new)

\* os.PathSeparator
Separator == "/"

\* strings.Split(s, "/")[0]: the text before the first separator
FirstPart(s) ==
    IF ContainsChar(s, Separator)
    THEN SubSeq(s, 1, (CHOOSE i \in 1..Len(s) :
                          /\ s[i] = Separator
                          /\ \A j \in 1..(i - 1) : s[j] # Separator) - 1)
    ELSE s

\* filepath.Base for a path that does not end with a separator: the text
\* after the last separator
Base(path) ==
    IF ContainsChar(path, Separator)
    THEN SubSeq(path, (CHOOSE i \in 1..Len(path) :
                          /\ path[i] = Separator
                          /\ \A j \in (i + 1)..Len(path) : path[j] # Separator) + 1,
                Len(path))
    ELSE path

\* filepath.Join(root, rel) for clean operands
Join(root, rel) == root \o <<Separator>> \o rel

\* filepath.Rel(root, path) for a path that filepath.Walk(root) reports
Rel(root, path) ==
    IF path = root THEN <<".">> ELSE SubSeq(path, Len(root) + 2, Len(path))

(***************************************************************************)
(* package regexp: the fragment of the RE2 syntax the patterns use.        *)
(* Literals, \ followed by a punctuation character, ., ^, $, groups ( ),   *)
(* alternation | and the repetitions * + ? (with the lazy marker ?).       *)
(* Character classes, flags, counted repetition and the class escapes      *)
(* (\d, \w, ...) are outside the fragment; no pattern of the model uses    *)
(* them.                                                                   *)
(***************************************************************************)

RepeatOps == {"*", "+", "?"}

\* regexp.QuoteMeta: the characters it escapes
SpecialChars ==
    {"\\", ".", "+", "*", "?", "(", ")", "|", "[", "]", "{", "}", "^", "$"}

RECURSIVE QuoteMeta(_)
QuoteMeta(s) ==
    IF Len(s) = 0 THEN << >>
    ELSE (IF s[1] \in SpecialChars THEN <<"\\", s[1]>> ELSE <<s[1]>>)
         \o QuoteMeta(Tail(s))

Alnum ==
    {"a", "b", "c", "d", "e", "f", "g", "h", "i", "j", "k", "l", "m", "n",
     "o", "p", "q", "r", "s", "t", "u", "v", "w", "x", "y", "z",
     "A", "B", "C", "D", "E", "F", "G", "H", "I", "J", "K", "L", "M", "N",
     "O", "P", "Q", "R", "S", "T", "U", "V", "W", "X", "Y", "Z",
     "0", "1", "2", "3", "4", "5", "6", "7", "8", "9"}

\* regexp/syntax parser, the syntax check: i is the position in re, depth the
\* number of open groups, operand whether the top of the parse stack is an
\* operand (not a left parenthesis or a vertical bar, and not empty),
\* lastRepeat whether the previous token was a repetition.
RECURSIVE ParseOK(_, _, _, _, _)
ParseOK(re, i, depth, operand, lastRepeat) ==
    IF i > Len(re) THEN depth = 0
    ELSE LET c == re[i] IN
         CASE c = "\\" ->
                /\ i < Len(re)
                /\ re[i + 1] \notin Alnum
                /\ ParseOK(re, i + 2, depth, TRUE, FALSE)
           [] c = "(" -> ParseOK(re, i + 1, depth + 1, FALSE, FALSE)
           [] c = ")" -> depth > 0 /\ ParseOK(re, i + 1, depth - 1, TRUE, FALSE)
           [] c = "|" -> ParseOK(re, i + 1, depth, FALSE, FALSE)
           [] c \in RepeatOps ->
                LET lazy == i < Len(re) /\ re[i + 1] = "?" IN
                /\ ~lastRepeat
                /\ operand
                /\ ParseOK(re, IF lazy THEN i + 2 ELSE i + 1, depth, TRUE, TRUE)
           [] c \in {"[", "]", "{", "}"} -> FALSE
           [] OTHER -> ParseOK(re, i + 1, depth, TRUE, FALSE)

\* Whether re is a well-formed regular expression.
WellFormed(re) == ParseOK(re, 1, 0, FALSE, FALSE)

\* The position after the group that opens at position i of a valid re.
RECURSIVE GroupEnd(_, _, _)
GroupEnd(re, i, depth) ==
    CASE re[i] = "\\" -> GroupEnd(re, i + 2, depth)
      [] re[i] = "(" -> GroupEnd(re, i + 1, depth + 1)
      [] re[i] = ")" -> IF depth = 1 THEN i + 1 ELSE GroupEnd(re, i + 1, depth - 1)
      [] OTHER -> GroupEnd(re, i + 1, depth)

\* The position after the atom that starts at position i.
AtomNext(re, i) ==
    CASE re[i] = "\\" -> i + 2
      [] re[i] = "(" -> GroupEnd(re, i, 0)
      [] OTHER -> i + 1

\* The position of the first vertical bar of re[lo..hi-1] outside any group,
\* 0 when there is none.
RECURSIVE TopBar(_, _, _)
TopBar(re, lo, hi) ==
    IF lo >= hi THEN 0
    ELSE IF re[lo] = "|" THEN lo
    ELSE TopBar(re, AtomNext(re, lo), hi)

\* Matching: J is a set of positions of s (the number of characters consumed
\* so far); the operators return the positions a match of re[lo..hi-1] that
\* starts at a position of J can end at.
RECURSIVE AltEnds(_, _, _, _, _), CatEnds(_, _, _, _, _),
          AtomEnds(_, _, _, _, _), StarEnds(_, _, _, _, _)

AltEnds(re, lo, hi, s, J) ==
    LET bar == TopBar(re, lo, hi) IN
    IF bar = 0 THEN CatEnds(re, lo, hi, s, J)
    ELSE CatEnds(re, lo, bar, s, J) \cup AltEnds(re, bar + 1, hi, s, J)

CatEnds(re, lo, hi, s, J) ==
    IF lo >= hi \/ J = {} THEN J
    ELSE LET a    == AtomNext(re, lo)
             op   == IF a < hi /\ re[a] \in RepeatOps THEN re[a] ELSE ""
             lazy == op # "" /\ a + 1 < hi /\ re[a + 1] = "?"
             next == a + (IF op # "" THEN 1 ELSE 0) + (IF lazy THEN 1 ELSE 0)
             E    == CASE op = "*" -> StarEnds(re, lo, a, s, J)
                       [] op = "+" -> StarEnds(re, lo, a, s, AtomEnds(re, lo, a, s, J))
                       [] op = "?" -> J \cup AtomEnds(re, lo, a, s, J)
                       [] OTHER -> AtomEnds(re, lo, a, s, J)
         IN CatEnds(re, next, hi, s, E)

AtomEnds(re, lo, a, s, J) ==
    CASE re[lo] = "(" -> AltEnds(re, lo + 1, a - 1, s, J)
      [] re[lo] = "\\" -> {j + 1 : j \in {k \in J : k < Len(s) /\ s[k + 1] = re[lo + 1]}}
      [] re[lo] = "." -> {j + 1 : j \in {k \in J : k < Len(s)}}
      [] re[lo] = "^" -> J \cap {0}
      [] re[lo] = "$" -> J \cap {Len(s)}
      [] OTHER -> {j + 1 : j \in {k \in J : k < Len(s) /\ s[k + 1] = re[lo]}}

StarEnds(re, lo, a, s, J) ==
    LET E == J \cup AtomEnds(re, lo, a, s, J) IN
    IF E = J THEN J ELSE StarEnds(re, lo, a, s, E)

\* Whether some substring of s matches re.
Search(re, s) == AltEnds(re, 1, Len(re) + 1, s, 0..Len(s)) # {}


(***************************************************************************)
(* The strings of the model: the scan root, the relative paths of the      *)
(* directory trees and the user patterns.                                  *)
(***************************************************************************)

\* The scan roots and the relative paths of the trees
RootA == <<"A">>
RootB == <<"B">>
RootC == <<"C">>
RootD == <<"D">>
P_git == <<".", "g", "i", "t">>
P_git_config == <<".", "g", "i", "t", "/", "c", "o", "n", "f", "i", "g">>
P_a_go == <<"a", ".", "g", "o">>
P_b_txt == <<"b", ".", "t", "x", "t">>
P_img_png == <<"i", "m", "g", ".", "p", "n", "g">>
P_lib == <<"l", "i", "b">>
P_lib_b_go == <<"l", "i", "b", "/", "b", ".", "g", "o">>
P_logo_svg == <<"l", "o", "g", "o", ".", "s", "v", "g">>
P_main_go == <<"m", "a", "i", "n", ".", "g", "o">>
P_main_go_bak == <<"m", "a", "i", "n", ".", "g", "o", ".", "b", "a", "k">>
P_pkg == <<"p", "k", "g">>
P_pkg_sub == <<"p", "k", "g", "/", "s", "u", "b">>
P_pkg_sub_x_go ==
    <<"p", "k", "g", "/", "s", "u", "b", "/", "x", ".", "g", "o">>
P_src == <<"s", "r", "c">>
P_src_a_go == <<"s", "r", "c", "/", "a", ".", "g", "o">>
P_big_go == <<"b", "i", "g", ".", "g", "o">>
P_bin_go == <<"b", "i", "n", ".", "g", "o">>
P_empty_go == <<"e", "m", "p", "t", "y", ".", "g", "o">>
P_io_go == <<"i", "o", ".", "g", "o">>
P_locked_go == <<"l", "o", "c", "k", "e", "d", ".", "g", "o">>
P_nul_txt == <<"n", "u", "l", ".", "t", "x", "t">>
P_bad == <<"b", "a", "d">>
P_z_go == <<"z", ".", "g", "o">>
P_utils_a_go == <<"u", "t", "i", "l", "s", "/", "a", ".", "g", "o">>
P_utilities_x == <<"u", "t", "i", "l", "i", "t", "i", "e", "s", "/", "x">>
P_src_util_go == <<"s", "r", "c", "/", "u", "t", "i", "l", ".", "g", "o">>

\* User patterns
Pat_go == <<"\\", ".", "g", "o", "$">>
Pat_txt == <<"\\", ".", "t", "x", "t", "$">>
Pat_svg == <<"\\", ".", "s", "v", "g", "$">>
Pat_x_go == <<"^", "x", "\\", ".", "g", "o", "$">>
Pat_pkg == <<"^", "p", "k", "g", "/">>
Pat_all_go == <<".", "*", "\\", ".", "g", "o", "$">>
Pat_bad == <<"(">>
Pat_src == <<"/", "s", "r", "c">>
Pat_src_dir == <<"/", "s", "r", "c", "/">>
Pat_src_ut == <<"/", "s", "r", "c", "/", "u", "t">>
Pat_util == <<"/", "u", "t", "i", "l">>
Pat_slash == <<"/">>
Glob_go == <<"*", ".", "g", "o">>
Glob_main == <<"m", "a", "i", "n", ".", "g", "?">>
Glob_sub == <<"p", "k", "g", "/", "*">>

\* defaultExclusionPatterns, one definition per element
Default1 == <<"\\", ".", "g", "i", "t", "/">>
Default2 == <<"\\", ".", "g", "i", "t", "i", "g", "n", "o", "r", "e", "$">>
Default3 == <<"\\", ".", "D", "S", "_", "S", "t", "o", "r", "e", "$">>
Default4 ==
    <<"n", "o", "d", "e", "_", "m", "o", "d", "u", "l", "e", "s", "/">>
Default5 == <<"\\", ".", "e", "n", "v", "$">>
Default6 ==
    <<"\\", ".", "(", "j", "p", "g", "|", "j", "p", "e", "g", "|", "p",
      "n", "g", "|", "g", "i", "f", "|", "s", "v", "g", "|", "i", "c", "o",
      "|", "b", "m", "p", "|", "t", "i", "f", "f", "|", "w", "e", "b", "p",
      ")", "$">>
Default7 ==
    <<"\\", ".", "(", "m", "p", "4", "|", "m", "o", "v", "|", "a", "v",
      "i", "|", "m", "k", "v", "|", "w", "e", "b", "m", "|", "f", "l", "v",
      ")", "$">>
Default8 ==
    <<"\\", ".", "(", "m", "p", "3", "|", "w", "a", "v", "|", "f", "l",
      "a", "c", "|", "a", "a", "c", "|", "o", "g", "g", ")", "$">>
Default9 ==
    <<"\\", ".", "(", "z", "i", "p", "|", "t", "a", "r", "|", "g", "z",
      "|", "r", "a", "r", "|", "7", "z", "|", "e", "x", "e", "|", "d", "m",
      "g", "|", "p", "k", "g", ")", "$">>
Default10 ==
    <<"\\", ".", "(", "p", "d", "f", "|", "d", "o", "c", "|", "d", "o",
      "c", "x", "|", "x", "l", "s", "|", "x", "l", "s", "x", "|", "p", "p",
      "t", "|", "p", "p", "t", "x", ")", "$">>

defaultExclusionPatterns ==
    <<Default1, Default2, Default3, Default4, Default5,
      Default6, Default7, Default8, Default9, Default10>>

Range(seq) == {seq[i] : i \in 1..Len(seq)}

(***************************************************************************)
(* State                                                                   *)
(***************************************************************************)

VARIABLES
    scanRoot,           \* the directory the scans walk
    exclusions,  \* config: the user's -exclude list
    inclusions,  \* config: the user's -include list
    mainCollect,        \* result of main.collectFiles, or NotRun
    mainDryRun,         \* result of main.performDryRun, or NotRun
    tuiCollect,         \* result of tui.collectFiles, or NotRun
    tuiDryRun,          \* result of tui.performDryRun, or NotRun
    matchPattern,       \* matchesPattern's argument pattern
    matchPath,          \* matchesPattern's argument relativePath
    mainMatch,          \* what main.matchesPattern returned, once called
    tuiMatch,           \* what tui.matchesPattern returned, once called
    now,                \* time.Now(), in minutes
    metadata,           \* the metadata files of the cache directory, by path
    dirs,               \* the repository directories that exist
    lastCall,           \* the cache function that returned last, and its results
    latestStore,        \* per URL, the latest cacheRepo whose entry is on disk
    checkout,           \* per repository directory, the URL it is a clone of
    enableTUI,          \* config.enableTUI of the runs (the -tui flag)
    peek,               \* config.peek of the command-line run (the -peek flag)
    pc,                 \* where the command-line run is in processRepository
    response,           \* the run's variable response, once the prompt is answered
    shown,              \* the dry-run result the run has printed
    output,             \* the output file the run has written
    model,              \* the Model of the TUI session (m)
    running,            \* the session's commands, started and not yet delivered
    quit,               \* the session has returned tea.Quit
    ledTo               \* the error of the processing run that led to the results view

scanVars ==
    <<scanRoot, exclusions, inclusions,
      mainCollect, mainDryRun, tuiCollect, tuiDryRun>>

matchVars == <<matchPattern, matchPath, mainMatch, tuiMatch>>

cacheVars == <<now, metadata, dirs, lastCall, latestStore>>

resolveVars == <<checkout, enableTUI>>

runVars == <<peek, pc, response, shown, output>>

sessionVars == <<model, running, quit, ledTo>>

vars == <<scanVars, matchVars, cacheVars, resolveVars, runVars, sessionVars>>

(***************************************************************************)
(* The disk: four directory trees, which no scan changes. A tree is the    *)
(* sequence of entries filepath.Walk visits, in walk order (lexical). A    *)
(* file's content is its size and the positions of its null bytes, which   *)
(* is all that isTextFile reads of it.                                     *)
(***************************************************************************)

Dir(root, rel) ==
    [path |-> IF rel = << >> THEN root ELSE Join(root, rel), isDir |-> TRUE,
     size |-> 0, nulls |-> {},
     openErr |-> FALSE, readErr |-> FALSE, walkErr |-> FALSE]

File(root, rel, size, nulls) ==
    [path |-> Join(root, rel), isDir |-> FALSE, size |-> size, nulls |-> nulls,
     openErr |-> FALSE, readErr |-> FALSE, walkErr |-> FALSE]

\* The spec's first scenario: a.go, b.txt, .git/config, img.png
TreeA ==
    <<Dir(RootA, << >>), Dir(RootA, P_git), File(RootA, P_git_config, 40, {}),
      File(RootA, P_a_go, 100, {}), File(RootA, P_b_txt, 20, {}),
      File(RootA, P_img_png, 900, {5, 6, 700})>>

\* Nested directories, a text file with a default-excluded extension
TreeB ==
    <<Dir(RootB, << >>), Dir(RootB, P_lib), File(RootB, P_lib_b_go, 10, {}),
      File(RootB, P_logo_svg, 300, {}), File(RootB, P_main_go, 50, {}),
      File(RootB, P_main_go_bak, 50, {}), Dir(RootB, P_pkg),
      Dir(RootB, P_pkg_sub), File(RootB, P_pkg_sub_x_go, 7, {}),
      Dir(RootB, P_src), File(RootB, P_src_a_go, 1, {})>>

\* The classifier's cases: a null byte at and after the end of the sample,
\* an empty file, a file that cannot be read, a file that cannot be opened,
\* and files after them
TreeC ==
    <<Dir(RootC, << >>), File(RootC, P_big_go, 600, {513}),
      File(RootC, P_bin_go, 600, {512}), File(RootC, P_empty_go, 0, {}),
      [File(RootC, P_io_go, 10, {}) EXCEPT !.readErr = TRUE],
      [File(RootC, P_locked_go, 10, {}) EXCEPT !.openErr = TRUE],
      File(RootC, P_nul_txt, 3, {2}), File(RootC, P_z_go, 5, {})>>

\* An entry the walk reports an error on
TreeD ==
    <<Dir(RootD, << >>), File(RootD, P_a_go, 100, {}),
      [Dir(RootD, P_bad) EXCEPT !.walkErr = TRUE], File(RootD, P_z_go, 5, {})>>

Roots == {RootA, RootB, RootC, RootD}

\* filepath.Walk(root, fn): the entries fn is called with, in order
Walk(root) ==
    CASE root = RootA -> TreeA
      [] root = RootB -> TreeB
      [] root = RootC -> TreeC
      [] root = RootD -> TreeD

Entries == UNION {Range(Walk(root)) : root \in Roots}

\* The file or directory at path.
Stat(path) == CHOOSE e \in Entries : e.path = path

(***************************************************************************)
(* package tui: the translation of a glob, placed here because the table   *)
(* of matches below covers the translated patterns                         *)
(***************************************************************************)

tui_globToRegex(glob) ==
    LET quoted   == QuoteMeta(glob)
        stars    == ReplaceAll(quoted, <<"\\", "*">>, <<".", "*">>)
        result   == ReplaceAll(stars, <<"\\", "?">>, <<".">>)
        anchored == IF ~HasPrefix(result, <<".", "*">>)
                    THEN <<"^">> \o result ELSE result
    IN IF ~HasSuffix(anchored, <<".", "*">>)
       THEN anchored \o <<"$">> ELSE anchored

\* The regular expression tui compiles for a pattern that is no path pattern.
tui_regexPattern(pattern) ==
    IF ContainsChar(pattern, "*") \/ ContainsChar(pattern, "?")
    THEN tui_globToRegex(pattern)
    ELSE pattern

(***************************************************************************)
(* regexp.Compile and Regexp.MatchString. The results for the model's      *)
(* patterns and paths are computed once and looked up afterwards; any      *)
(* other pattern or path is computed on the spot. (f @@ << >> is f, as an  *)
(* explicit table.)                                                        *)
(***************************************************************************)

UserPatterns ==
    {Pat_go, Pat_txt, Pat_svg, Pat_x_go, Pat_pkg, Pat_all_go, Pat_bad,
     Glob_go, Glob_main, Glob_sub}

CompileTable ==
    [re \in Range(defaultExclusionPatterns) \cup UserPatterns
             \cup {tui_regexPattern(p) : p \in UserPatterns}
        |-> WellFormed(re)] @@ << >>

\* regexp.Compile(re) returns no error
CompileOK(re) ==
    IF re \in DOMAIN CompileTable THEN CompileTable[re] ELSE WellFormed(re)

TablePatterns == {re \in DOMAIN CompileTable : CompileTable[re]}

RelativePaths ==
    {P_git_config, P_a_go, P_b_txt, P_img_png, P_lib_b_go, P_logo_svg,
     P_main_go, P_main_go_bak, P_pkg_sub_x_go, P_src_a_go, P_big_go, P_bin_go,
     P_empty_go, P_io_go, P_locked_go, P_nul_txt, P_z_go, P_utils_a_go,
     P_utilities_x, P_src_util_go}

TableStrings == RelativePaths \cup {Base(p) : p \in RelativePaths}

MatchTable ==
    [q \in TablePatterns \X TableStrings |-> Search(q[1], q[2])] @@ << >>

MatchString(re, s) ==
    IF <<re, s>> \in DOMAIN MatchTable
    THEN MatchTable[<<re, s>>]
    ELSE Search(re, s)

(***************************************************************************)
(* package main (the command line)                                         *)
(***************************************************************************)

\* The number of bytes isTextFile reads
SampleSize == 512

Min(a, b) == IF a < b THEN a ELSE b

main_isPathPattern(pattern) == HasPrefix(pattern, <<"/">>)

main_matchesPathPattern(pattern, relativePath) ==
    IF ~main_isPathPattern(pattern) THEN FALSE
    ELSE LET cleanPattern == TrimPrefix(pattern, <<"/">>)
         IN HasPrefix(FirstPart(relativePath), cleanPattern)

main_matchesPattern(pattern, relativePath, baseName) ==
    IF main_isPathPattern(pattern)
    THEN main_matchesPathPattern(pattern, relativePath)
    ELSE IF ~CompileOK(pattern) THEN FALSE
    ELSE MatchString(pattern, relativePath) \/ MatchString(pattern, baseName)

\* main.isTextFile with the sample's last byte left unexamined.
main_isTextFile_shortSample(path) ==
    LET file == Stat(path)
        n    == IF file.readErr THEN 0 ELSE Min(file.size, SampleSize)
        err  == IF file.readErr THEN "EIO" ELSE IF n = 0 THEN "EOF" ELSE "nil"
    IN IF file.openErr THEN FALSE
       ELSE IF err # "nil" /\ err # "EOF" THEN FALSE
       ELSE ~(\E i \in 1..(n - 1) : i \in file.nulls)

\* main.isTextFile that goes on to the sample when the read failed.
main_isTextFile_ignoresReadError(path) ==
    LET file == Stat(path)
        n    == IF file.readErr THEN 0 ELSE Min(file.size, SampleSize)
    IN IF file.openErr THEN FALSE
       ELSE ~(\E i \in 1..n : i \in file.nulls)

main_isTextFile(path) ==
    LET file == Stat(path)
        n    == IF file.readErr THEN 0 ELSE Min(file.size, SampleSize)
        err  == IF file.readErr THEN "EIO" ELSE IF n = 0 THEN "EOF" ELSE "nil"
    IN IF file.openErr THEN FALSE
       ELSE IF err # "nil" /\ err # "EOF" THEN FALSE
       ELSE ~(\E i \in 1..n : i \in file.nulls)

\* The regex patterns of a list all compile (path patterns are skipped).
main_patternsValid(patterns) ==
    \A k \in 1..Len(patterns) :
        main_isPathPattern(patterns[k]) \/ CompileOK(patterns[k])

\* The walk function of main.performDryRun, from entry i on.
RECURSIVE main_performDryRunWalk(_, _, _, _, _, _)
main_performDryRunWalk(rootPath, allExclusionPatterns, inclusionPatterns, i, includedFiles, excludedFiles) ==
    IF i > Len(Walk(rootPath))
    THEN [included |-> includedFiles, excluded |-> excludedFiles, err |-> "nil",
          visited |-> i - 1]
    ELSE LET info == Walk(rootPath)[i]
             path == info.path
             relativePath == Rel(rootPath, path)
         IN
         IF info.walkErr
         THEN [included |-> includedFiles, excluded |-> excludedFiles,
               err |-> "walk", visited |-> i]
         ELSE IF info.isDir
         THEN main_performDryRunWalk(rootPath, allExclusionPatterns, inclusionPatterns,
                                     i + 1, includedFiles, excludedFiles)
         ELSE IF ~main_isTextFile(path)
         THEN main_performDryRunWalk(rootPath, allExclusionPatterns, inclusionPatterns,
                                     i + 1, includedFiles,
                                     Append(excludedFiles, path))
         ELSE IF \E k \in 1..Len(allExclusionPatterns) :
                    main_matchesPattern(allExclusionPatterns[k], relativePath,
                                        Base(path))
         THEN main_performDryRunWalk(rootPath, allExclusionPatterns, inclusionPatterns,
                                     i + 1, includedFiles,
                                     Append(excludedFiles, path))
         ELSE IF /\ Len(inclusionPatterns) > 0
                 /\ ~\E k \in 1..Len(inclusionPatterns) :
                        main_matchesPattern(inclusionPatterns[k], relativePath,
                                            Base(path))
         THEN main_performDryRunWalk(rootPath, allExclusionPatterns, inclusionPatterns,
                                     i + 1, includedFiles,
                                     Append(excludedFiles, path))
         ELSE main_performDryRunWalk(rootPath, allExclusionPatterns, inclusionPatterns,
                                     i + 1, Append(includedFiles, path),
                                     excludedFiles)

\* main.performDryRun with the inclusion patterns validated but not passed
\* on to the walk.
main_performDryRun_ignoresInclusions(rootPath, exclusionPatterns, inclusionPatterns) ==
    IF ~main_patternsValid(exclusionPatterns)
    THEN [included |-> << >>, excluded |-> << >>, err |-> "exclusion",
          visited |-> 0]
    ELSE IF ~main_patternsValid(inclusionPatterns)
    THEN [included |-> << >>, excluded |-> << >>, err |-> "inclusion",
          visited |-> 0]
    ELSE main_performDryRunWalk(rootPath,
                                exclusionPatterns \o defaultExclusionPatterns,
                                << >>, 1, << >>, << >>)

\* main.performDryRun that validates the exclusion patterns only.
main_performDryRun_exclusionsValidatedOnly(rootPath, exclusionPatterns, inclusionPatterns) ==
    IF ~main_patternsValid(exclusionPatterns)
    THEN [included |-> << >>, excluded |-> << >>, err |-> "exclusion",
          visited |-> 0]
    ELSE main_performDryRunWalk(rootPath,
                                exclusionPatterns \o defaultExclusionPatterns,
                                inclusionPatterns, 1, << >>, << >>)

main_performDryRun(rootPath, exclusionPatterns, inclusionPatterns) ==
    IF ~main_patternsValid(exclusionPatterns)
    THEN [included |-> << >>, excluded |-> << >>, err |-> "exclusion",
          visited |-> 0]
    ELSE IF ~main_patternsValid(inclusionPatterns)
    THEN [included |-> << >>, excluded |-> << >>, err |-> "inclusion",
          visited |-> 0]
    ELSE main_performDryRunWalk(rootPath,
                                exclusionPatterns \o defaultExclusionPatterns,
                                inclusionPatterns, 1, << >>, << >>)

\* The walk function of main.collectFiles, from entry i on.
RECURSIVE main_collectFilesWalk(_, _, _, _, _)
main_collectFilesWalk(rootPath, allExclusionPatterns, inclusionPatterns, i, files) ==
    IF i > Len(Walk(rootPath))
    THEN [included |-> files, err |-> "nil", visited |-> i - 1]
    ELSE LET info == Walk(rootPath)[i]
             path == info.path
             relativePath == Rel(rootPath, path)
         IN
         IF info.walkErr THEN [included |-> files, err |-> "walk", visited |-> i]
         ELSE IF info.isDir
         THEN main_collectFilesWalk(rootPath, allExclusionPatterns, inclusionPatterns,
                                    i + 1, files)
         ELSE IF \E k \in 1..Len(allExclusionPatterns) :
                    main_matchesPattern(allExclusionPatterns[k], relativePath,
                                        Base(path))
         THEN main_collectFilesWalk(rootPath, allExclusionPatterns, inclusionPatterns,
                                    i + 1, files)
         ELSE IF /\ Len(inclusionPatterns) > 0
                 /\ ~\E k \in 1..Len(inclusionPatterns) :
                        main_matchesPattern(inclusionPatterns[k], relativePath,
                                            Base(path))
         THEN main_collectFilesWalk(rootPath, allExclusionPatterns, inclusionPatterns,
                                    i + 1, files)
         ELSE IF main_isTextFile(path)
         THEN main_collectFilesWalk(rootPath, allExclusionPatterns, inclusionPatterns,
                                    i + 1, Append(files, path))
         ELSE main_collectFilesWalk(rootPath, allExclusionPatterns, inclusionPatterns,
                                    i + 1, files)

\* main.collectFiles without the built-in exclusion patterns.
main_collectFiles_userExclusionsOnly(rootPath, exclusionPatterns, inclusionPatterns) ==
    IF ~main_patternsValid(exclusionPatterns)
    THEN [included |-> << >>, err |-> "exclusion",
          visited |-> 0]
    ELSE IF ~main_patternsValid(inclusionPatterns)
    THEN [included |-> << >>, err |-> "inclusion",
          visited |-> 0]
    ELSE main_collectFilesWalk(rootPath, exclusionPatterns,
                               inclusionPatterns, 1, << >>)

main_collectFiles(rootPath, exclusionPatterns, inclusionPatterns) ==
    IF ~main_patternsValid(exclusionPatterns)
    THEN [included |-> << >>, err |-> "exclusion",
          visited |-> 0]
    ELSE IF ~main_patternsValid(inclusionPatterns)
    THEN [included |-> << >>, err |-> "inclusion",
          visited |-> 0]
    ELSE main_collectFilesWalk(rootPath,
                               exclusionPatterns \o defaultExclusionPatterns,
                               inclusionPatterns, 1, << >>)

(***************************************************************************)
(* package tui                                                             *)
(***************************************************************************)

tui_isPathPattern(pattern) == HasPrefix(pattern, <<"/">>)

tui_matchesPathPattern(pattern, relativePath) ==
    LET trimmed == TrimPrefix(pattern, <<"/">>) IN
    IF HasSuffix(trimmed, <<"/">>)
    THEN LET dir == TrimSuffix(trimmed, <<"/">>)
         IN HasPrefix(relativePath, dir \o <<"/">>) \/ relativePath = dir
    ELSE HasPrefix(relativePath, trimmed)

\* tui.matchesPattern that tries the regex on the relative path alone.
tui_matchesPattern_relativePathOnly(pattern, relativePath, baseName) ==
    IF tui_isPathPattern(pattern)
    THEN tui_matchesPathPattern(pattern, relativePath)
    ELSE LET regexPattern == tui_regexPattern(pattern) IN
         IF ~CompileOK(regexPattern) THEN FALSE
         ELSE MatchString(regexPattern, relativePath)

tui_matchesPattern(pattern, relativePath, baseName) ==
    IF tui_isPathPattern(pattern)
    THEN tui_matchesPathPattern(pattern, relativePath)
    ELSE LET regexPattern == tui_regexPattern(pattern) IN
         IF ~CompileOK(regexPattern) THEN FALSE
         ELSE \/ MatchString(regexPattern, relativePath)
              \/ MatchString(regexPattern, baseName)

tui_isTextFile(path) ==
    LET file == Stat(path)
        n    == IF file.readErr THEN 0 ELSE Min(file.size, SampleSize)
        err  == IF file.readErr THEN "EIO" ELSE IF n = 0 THEN "EOF" ELSE "nil"
    IN IF file.openErr THEN FALSE
       ELSE IF err # "nil" /\ n = 0 THEN FALSE
       ELSE ~(\E i \in 1..n : i \in file.nulls)

\* The patterns of a list that are no path patterns all compile.
tui_patternsValid(patterns) ==
    \A k \in 1..Len(patterns) :
        tui_isPathPattern(patterns[k]) \/ CompileOK(tui_regexPattern(patterns[k]))

\* The walk function of tui.performDryRun, from entry i on.
RECURSIVE tui_performDryRunWalk(_, _, _, _, _, _)
tui_performDryRunWalk(rootPath, allExclusionPatterns, validInclusionPatterns, i, includedFiles, excludedFiles) ==
    IF i > Len(Walk(rootPath))
    THEN [included |-> includedFiles, excluded |-> excludedFiles, err |-> "nil",
          visited |-> i - 1]
    ELSE LET info == Walk(rootPath)[i]
             path == info.path
             relativePath == Rel(rootPath, path)
             baseName == Base(path)
         IN
         IF info.walkErr
         THEN [included |-> includedFiles, excluded |-> excludedFiles,
               err |-> "walk", visited |-> i]
         ELSE IF info.isDir
         THEN tui_performDryRunWalk(rootPath, allExclusionPatterns,
                                    validInclusionPatterns, i + 1,
                                    includedFiles, excludedFiles)
         ELSE IF ~tui_isTextFile(path)
         THEN tui_performDryRunWalk(rootPath, allExclusionPatterns,
                                    validInclusionPatterns, i + 1,
                                    includedFiles, Append(excludedFiles, path))
         ELSE IF \E k \in 1..Len(allExclusionPatterns) :
                    tui_matchesPattern(allExclusionPatterns[k], relativePath,
                                       baseName)
         THEN tui_performDryRunWalk(rootPath, allExclusionPatterns,
                                    validInclusionPatterns, i + 1,
                                    includedFiles, Append(excludedFiles, path))
         ELSE IF /\ Len(validInclusionPatterns) > 0
                 /\ ~\E k \in 1..Len(validInclusionPatterns) :
                        tui_matchesPattern(validInclusionPatterns[k],
                                           relativePath, baseName)
         THEN tui_performDryRunWalk(rootPath, allExclusionPatterns,
                                    validInclusionPatterns, i + 1,
                                    includedFiles, Append(excludedFiles, path))
         ELSE tui_performDryRunWalk(rootPath, allExclusionPatterns,
                                    validInclusionPatterns, i + 1,
                                    Append(includedFiles, path), excludedFiles)

\* tui.performDryRun where a file that matches an inclusion pattern is
\* included even if an exclusion pattern matches it.
tui_performDryRun_inclusionFirst(rootPath, exclusionPatterns, inclusionPatterns) ==
    LET entries == SelectSeq(Walk(rootPath), LAMBDA e : ~e.isDir)
        paths == [i \in 1..Len(entries) |-> entries[i].path]
        all == defaultExclusionPatterns \o exclusionPatterns
        Hit(patterns, path) ==
            \E k \in 1..Len(patterns) :
                tui_matchesPattern(patterns[k], Rel(rootPath, path), Base(path))
        Keep(path) ==
            /\ tui_isTextFile(path)
            /\ \/ Hit(inclusionPatterns, path)
               \/ Len(inclusionPatterns) = 0 /\ ~Hit(all, path)
    IN [included |-> SelectSeq(paths, Keep),
        excluded |-> SelectSeq(paths, LAMBDA path : ~Keep(path)),
        err |-> "nil", visited |-> Len(Walk(rootPath))]

\* tui.performDryRun that records as excluded only the files an exclusion
\* pattern matches.
tui_performDryRun_excludedByPatternOnly(rootPath, exclusionPatterns, inclusionPatterns) ==
    IF ~tui_patternsValid(exclusionPatterns)
    THEN [included |-> << >>, excluded |-> << >>, err |-> "exclusion",
          visited |-> 0]
    ELSE IF ~tui_patternsValid(inclusionPatterns)
    THEN [included |-> << >>, excluded |-> << >>, err |-> "inclusion",
          visited |-> 0]
    ELSE LET all == defaultExclusionPatterns \o exclusionPatterns
             r == tui_performDryRunWalk(rootPath, all, inclusionPatterns,
                                        1, << >>, << >>)
             ByPattern(path) ==
                 \E k \in 1..Len(all) :
                     tui_matchesPattern(all[k], Rel(rootPath, path), Base(path))
         IN [r EXCEPT !.excluded = SelectSeq(r.excluded, ByPattern)]

tui_performDryRun(rootPath, exclusionPatterns, inclusionPatterns) ==
    IF ~tui_patternsValid(exclusionPatterns)
    THEN [included |-> << >>, excluded |-> << >>, err |-> "exclusion",
          visited |-> 0]
    ELSE IF ~tui_patternsValid(inclusionPatterns)
    THEN [included |-> << >>, excluded |-> << >>, err |-> "inclusion",
          visited |-> 0]
    ELSE tui_performDryRunWalk(rootPath,
                               defaultExclusionPatterns \o exclusionPatterns,
                               inclusionPatterns, 1, << >>, << >>)

tui_collectFiles(rootPath, exclusionPatterns, inclusionPatterns) ==
    LET r == tui_performDryRun(rootPath, exclusionPatterns, inclusionPatterns)
    IN [included |-> r.included, err |-> r.err, visited |-> r.visited]

(***************************************************************************)
(* The repository cache: getCachedRepo and cacheRepo, which package tui    *)
(* and package main define identically. Time is counted in minutes. A      *)
(* metadata file holds the JSON of a CacheEntry, which json.Unmarshal      *)
(* reads back field by field (a time.Time is written as RFC 3339 with      *)
(* nanoseconds, so the instant is kept), or something Unmarshal rejects.   *)
(***************************************************************************)

TTL == 5

UrlA == "https://github.com/a/repo"
UrlB == "https://github.com/b/repo"

Urls == {UrlA, UrlB}

getTmpCacheDir == "/tmp/repo-concat-cache"

\* hex(md5(githubURL)), for the URLs of the model
urlToHash(githubURL) ==
    CASE githubURL = UrlA -> "5d7122918ffeb9e6a4e1b8bf03d73493"
      [] githubURL = UrlB -> "e4b7bae3e38772f61121a18020b609e6"

MetadataPath(githubURL) ==
    getTmpCacheDir \o "/" \o urlToHash(githubURL) \o ".json"

MetadataPaths == {MetadataPath(u) : u \in Urls}

\* Where package tui clones both URLs to: the cache directory joined with
\* the repository's name.
TuiRepoPath == getTmpCacheDir \o "/repo"

\* Where package main moves the clone of UrlA to: the cache directory joined
\* with the URL's hash.
MainRepoPath == getTmpCacheDir \o "/" \o urlToHash(UrlA)

RepoPaths == {TuiRepoPath, MainRepoPath}

\* The paths the model stores a URL with.
RepoPathsOf(githubURL) ==
    IF githubURL = UrlA THEN {TuiRepoPath, MainRepoPath} ELSE {TuiRepoPath}

\* time.Time{}
ZeroTime == -1

NoFile == [kind |-> "absent"]

Unreadable == [kind |-> "corrupt"]

CacheEntry(url, cachedAt, repoPath, expiresAt) ==
    [kind |-> "entry", url |-> url, cachedAt |-> cachedAt,
     repoPath |-> repoPath, expiresAt |-> expiresAt]

\* getCachedRepo that, when the repository directory is missing, returns
\* not-found and leaves the metadata file.
getCachedRepo_keepsMetadata(githubURL, t, fs, ds) ==
    LET metadataPath == MetadataPath(githubURL)
        entry == fs[metadataPath]
        Miss(err, fs2, ds2, branch) ==
            [path |-> "", found |-> FALSE, cachedAt |-> ZeroTime, err |-> err,
             files |-> fs2, dirs |-> ds2, branch |-> branch]
    IN IF fs[metadataPath].kind = "absent"
       THEN Miss("nil", fs, ds, "absent")
       ELSE IF fs[metadataPath].kind = "corrupt"
       THEN Miss("unmarshal", fs, ds, "unreadable")
       ELSE IF t > entry.expiresAt
       THEN Miss("nil", [fs EXCEPT ![metadataPath] = NoFile],
                 ds \ {entry.repoPath}, "expired")
       ELSE IF entry.repoPath \notin ds
       THEN Miss("nil", fs, ds, "missing")
       ELSE [path |-> entry.repoPath, found |-> TRUE,
             cachedAt |-> entry.cachedAt, err |-> "nil",
             files |-> fs, dirs |-> ds, branch |-> "hit"]

\* getCachedRepo that, on a hit, writes the entry back with a new expiry.
getCachedRepo_refreshesOnHit(githubURL, t, fs, ds) ==
    LET metadataPath == MetadataPath(githubURL)
        entry == fs[metadataPath]
        Miss(err, fs2, ds2, branch) ==
            [path |-> "", found |-> FALSE, cachedAt |-> ZeroTime, err |-> err,
             files |-> fs2, dirs |-> ds2, branch |-> branch]
    IN IF fs[metadataPath].kind = "absent"
       THEN Miss("nil", fs, ds, "absent")
       ELSE IF fs[metadataPath].kind = "corrupt"
       THEN Miss("unmarshal", fs, ds, "unreadable")
       ELSE IF t > entry.expiresAt
       THEN Miss("nil", [fs EXCEPT ![metadataPath] = NoFile],
                 ds \ {entry.repoPath}, "expired")
       ELSE IF entry.repoPath \notin ds
       THEN Miss("nil", [fs EXCEPT ![metadataPath] = NoFile], ds, "missing")
       ELSE [path |-> entry.repoPath, found |-> TRUE,
             cachedAt |-> entry.cachedAt, err |-> "nil",
             files |-> [fs EXCEPT ![metadataPath] =
                           CacheEntry(githubURL, entry.cachedAt, entry.repoPath,
                                      t + TTL)],
             dirs |-> ds, branch |-> "hit"]

\* getCachedRepo(githubURL) at time t with the metadata files fs and the
\* directories ds: its four results, the files and directories it leaves,
\* and the return statement it took.
getCachedRepo(githubURL, t, fs, ds) ==
    LET metadataPath == MetadataPath(githubURL)
        entry == fs[metadataPath]
        Miss(err, fs2, ds2, branch) ==
            [path |-> "", found |-> FALSE, cachedAt |-> ZeroTime, err |-> err,
             files |-> fs2, dirs |-> ds2, branch |-> branch]
    IN IF fs[metadataPath].kind = "absent"
       THEN Miss("nil", fs, ds, "absent")
       ELSE IF fs[metadataPath].kind = "corrupt"
       THEN Miss("unmarshal", fs, ds, "unreadable")
       ELSE IF t > entry.expiresAt
       THEN Miss("nil", [fs EXCEPT ![metadataPath] = NoFile],
                 ds \ {entry.repoPath}, "expired")
       ELSE IF entry.repoPath \notin ds
       THEN Miss("nil", [fs EXCEPT ![metadataPath] = NoFile], ds, "missing")
       ELSE [path |-> entry.repoPath, found |-> TRUE,
             cachedAt |-> entry.cachedAt, err |-> "nil",
             files |-> fs, dirs |-> ds, branch |-> "hit"]

\* What can go wrong in cacheRepo: os.MkdirAll fails, or os.WriteFile fails
\* after it has truncated the file.
CacheFaults == {"none", "mkdir", "write"}

\* cacheRepo that leaves an entry already on disk as it is.
cacheRepo_keepsExisting(githubURL, repoPath, t, fs, fault) ==
    LET metadataPath == MetadataPath(githubURL)
        entry == CacheEntry(githubURL, t, repoPath, t + TTL)
    IN IF fault = "mkdir" THEN [err |-> "mkdir", files |-> fs]
       ELSE IF fault = "write"
       THEN [err |-> "write", files |-> [fs EXCEPT ![metadataPath] = Unreadable]]
       ELSE IF fs[metadataPath].kind = "entry"
       THEN [err |-> "nil", files |-> fs]
       ELSE [err |-> "nil", files |-> [fs EXCEPT ![metadataPath] = entry]]

\* cacheRepo(githubURL, repoPath) at time t with the metadata files fs: the
\* error it returns and the files it leaves.
cacheRepo(githubURL, repoPath, t, fs, fault) ==
    LET metadataPath == MetadataPath(githubURL)
        entry == CacheEntry(githubURL, t, repoPath, t + TTL)
    IN IF fault = "mkdir" THEN [err |-> "mkdir", files |-> fs]
       ELSE IF fault = "write"
       THEN [err |-> "write", files |-> [fs EXCEPT ![metadataPath] = Unreadable]]
       ELSE [err |-> "nil", files |-> [fs EXCEPT ![metadataPath] = entry]]

(***************************************************************************)
(* Resolving the configured source to a directory: resolveRepositoryPath   *)
(* of package tui, and main with the first part of processRepository.      *)
(* cloneRepository is the fetch: cloneOk says whether git clone succeeds,  *)
(* and a clone that fails leaves no directory. fault is what goes wrong    *)
(* with the cache directory, as in cacheRepo.                              *)
(***************************************************************************)

\* The second segment of the URL's path, less a .git suffix: both URLs of
\* the model name a repository "repo", of different owners.
extractRepoName(githubURL) ==
    CASE githubURL = UrlA -> "repo"
      [] githubURL = UrlB -> "repo"

\* filepath.Join(tempDir, repoName) in resolveRepositoryPath
tui_repoPath(githubURL) == getTmpCacheDir \o "/" \o extractRepoName(githubURL)

\* filepath.Join(cacheDir, urlToHash(config.githubURL)) in processRepository
main_cachedRepoPath(githubURL) == getTmpCacheDir \o "/" \o urlToHash(githubURL)

\* filepath.Join(tempDir, repoName) in processRepository, tempDir made by
\* os.MkdirTemp("", "repo-concat-*")
main_tempRepoPath(githubURL) == "/tmp/repo-concat-1/" \o extractRepoName(githubURL)

\* The directories under the cache directory that a resolution clones to.
CheckoutPaths ==
    {tui_repoPath(u) : u \in Urls} \cup {main_cachedRepoPath(u) : u \in Urls}

NoClone == "none"

\* The local directories: one that exists and one that does not.
LocalProject == "/home/user/project"
LocalMissing == "/home/user/missing"

LocalDirs == {LocalProject}

\* Config, with the fields a resolution reads.
Configs == [URL : Urls \cup {""}, Path : {LocalProject, LocalMissing, ""}]

\* os.RemoveAll(path), and the removals of getCachedRepo, on the clones.
Clear(co, ds) == [p \in CheckoutPaths |-> IF p \in ds THEN co[p] ELSE NoClone]

\* What a resolution returns (path, err) and leaves (files, dirs, checkout),
\* with what it did on the way: the calls of getCachedRepo (lookups) and the
\* return statement the call took (branch), the calls of cloneRepository
\* (fetches) and whether the clone succeeded (fetched), and whether
\* cacheRepo wrote the entry (stored).
Resolved(path, err, fs, ds, co, lookups, branch, fetches, fetched, stored) ==
    [path |-> path, err |-> err, files |-> fs, dirs |-> ds, checkout |-> co,
     lookups |-> lookups, branch |-> branch, fetches |-> fetches,
     fetched |-> fetched, stored |-> stored]

\* resolveRepositoryPath that writes the cache entry before it clones.
tui_resolveRepositoryPath_storesBeforeClone(config, t, fs, ds, co, cloneOk, fault) ==
    IF config.Path # ""
    THEN Resolved(config.Path, "nil", fs, ds, co, 0, "none", 0, FALSE, FALSE)
    ELSE IF config.URL # ""
    THEN LET c == getCachedRepo(config.URL, t, fs, ds)
             co1 == Clear(co, c.dirs)
             repoPath == tui_repoPath(config.URL)
             ds2 == c.dirs \ {repoPath}
             ds3 == ds2 \cup {repoPath}
             co3 == [co1 EXCEPT ![repoPath] = config.URL]
             st == cacheRepo(config.URL, repoPath, t, c.files, fault)
         IN IF c.err # "nil"
            THEN Resolved("", "cache", c.files, c.dirs, co1, 1, c.branch, 0, FALSE, FALSE)
            ELSE IF c.found
            THEN Resolved(c.path, "nil", c.files, c.dirs, co1, 1, c.branch, 0, FALSE, FALSE)
            ELSE IF fault = "mkdir"
            THEN Resolved("", "mkdir", c.files, c.dirs, co1, 1, c.branch, 0, FALSE, FALSE)
            ELSE IF ~cloneOk
            THEN Resolved("", "clone", st.files, ds2, Clear(co1, ds2), 1, c.branch,
                          1, FALSE, FALSE)
            ELSE IF st.err # "nil"
            THEN Resolved("", "store", st.files, ds3, co3, 1, c.branch, 1, TRUE, FALSE)
            ELSE Resolved(repoPath, "nil", st.files, ds3, co3, 1, c.branch, 1, TRUE, TRUE)
    ELSE Resolved("", "config", fs, ds, co, 0, "none", 0, FALSE, FALSE)

\* resolveRepositoryPath that returns no error when the configuration names
\* no source.
tui_resolveRepositoryPath_noConfigError(config, t, fs, ds, co, cloneOk, fault) ==
    IF config.Path # ""
    THEN Resolved(config.Path, "nil", fs, ds, co, 0, "none", 0, FALSE, FALSE)
    ELSE IF config.URL # ""
    THEN LET c == getCachedRepo(config.URL, t, fs, ds)
             co1 == Clear(co, c.dirs)
             repoPath == tui_repoPath(config.URL)
             ds2 == c.dirs \ {repoPath}
             ds3 == ds2 \cup {repoPath}
             co3 == [co1 EXCEPT ![repoPath] = config.URL]
             st == cacheRepo(config.URL, repoPath, t, c.files, fault)
         IN IF c.err # "nil"
            THEN Resolved("", "cache", c.files, c.dirs, co1, 1, c.branch, 0, FALSE, FALSE)
            ELSE IF c.found
            THEN Resolved(c.path, "nil", c.files, c.dirs, co1, 1, c.branch, 0, FALSE, FALSE)
            ELSE IF fault = "mkdir"
            THEN Resolved("", "mkdir", c.files, c.dirs, co1, 1, c.branch, 0, FALSE, FALSE)
            ELSE IF ~cloneOk
            THEN Resolved("", "clone", c.files, ds2, Clear(co1, ds2), 1, c.branch,
                          1, FALSE, FALSE)
            ELSE IF st.err # "nil"
            THEN Resolved("", "store", st.files, ds3, co3, 1, c.branch, 1, TRUE, FALSE)
            ELSE Resolved(repoPath, "nil", st.files, ds3, co3, 1, c.branch, 1, TRUE, TRUE)
    ELSE Resolved("", "nil", fs, ds, co, 0, "none", 0, FALSE, FALSE)

\* resolveRepositoryPath(config) of package tui
tui_resolveRepositoryPath(config, t, fs, ds, co, cloneOk, fault) ==
    IF config.Path # ""
    THEN Resolved(config.Path, "nil", fs, ds, co, 0, "none", 0, FALSE, FALSE)
    ELSE IF config.URL # ""
    THEN LET c == getCachedRepo(config.URL, t, fs, ds)
             co1 == Clear(co, c.dirs)
             repoPath == tui_repoPath(config.URL)
             ds2 == c.dirs \ {repoPath}
             ds3 == ds2 \cup {repoPath}
             co3 == [co1 EXCEPT ![repoPath] = config.URL]
             st == cacheRepo(config.URL, repoPath, t, c.files, fault)
         IN IF c.err # "nil"
            THEN Resolved("", "cache", c.files, c.dirs, co1, 1, c.branch, 0, FALSE, FALSE)
            ELSE IF c.found
            THEN Resolved(c.path, "nil", c.files, c.dirs, co1, 1, c.branch, 0, FALSE, FALSE)
            ELSE IF fault = "mkdir"
            THEN Resolved("", "mkdir", c.files, c.dirs, co1, 1, c.branch, 0, FALSE, FALSE)
            ELSE IF ~cloneOk
            THEN Resolved("", "clone", c.files, ds2, Clear(co1, ds2), 1, c.branch,
                          1, FALSE, FALSE)
            ELSE IF st.err # "nil"
            THEN Resolved("", "store", st.files, ds3, co3, 1, c.branch, 1, TRUE, FALSE)
            ELSE Resolved(repoPath, "nil", st.files, ds3, co3, 1, c.branch, 1, TRUE, TRUE)
    ELSE Resolved("", "config", fs, ds, co, 0, "none", 0, FALSE, FALSE)

\* processRepository that does not check that the local directory exists.
main_processRepository_noStat(config, t, fs, ds, co, cloneOk, fault) ==
    IF config.Path # ""
    THEN Resolved(config.Path, "nil", fs, ds, co, 0, "none", 0, FALSE, FALSE)
    ELSE LET c == getCachedRepo(config.URL, t, fs, ds)
             co1 == Clear(co, c.dirs)
             cachedRepoPath == main_cachedRepoPath(config.URL)
             ds3 == c.dirs \cup {cachedRepoPath}
             co3 == [co1 EXCEPT ![cachedRepoPath] = config.URL]
             st == cacheRepo(config.URL, cachedRepoPath, t, c.files, fault)
         IN IF c.err = "nil" /\ c.found
            THEN Resolved(c.path, "nil", c.files, c.dirs, co1, 1, c.branch, 0, FALSE, FALSE)
            ELSE IF ~cloneOk
            THEN Resolved("", "clone", c.files, c.dirs, co1, 1, c.branch, 1, FALSE, FALSE)
            ELSE IF fault = "mkdir"
            THEN Resolved(main_tempRepoPath(config.URL), "nil", c.files, c.dirs, co1,
                          1, c.branch, 1, TRUE, FALSE)
            ELSE Resolved(cachedRepoPath, "nil", st.files, ds3, co3, 1, c.branch,
                          1, TRUE, st.err = "nil")

\* processRepository(config) of package main, up to the point where
\* repoPath is set.
main_processRepository(config, t, fs, ds, co, cloneOk, fault) ==
    IF config.Path # ""
    THEN IF config.Path \notin LocalDirs
         THEN Resolved("", "nolocal", fs, ds, co, 0, "none", 0, FALSE, FALSE)
         ELSE Resolved(config.Path, "nil", fs, ds, co, 0, "none", 0, FALSE, FALSE)
    ELSE LET c == getCachedRepo(config.URL, t, fs, ds)
             co1 == Clear(co, c.dirs)
             cachedRepoPath == main_cachedRepoPath(config.URL)
             ds3 == c.dirs \cup {cachedRepoPath}
             co3 == [co1 EXCEPT ![cachedRepoPath] = config.URL]
             st == cacheRepo(config.URL, cachedRepoPath, t, c.files, fault)
         IN IF c.err = "nil" /\ c.found
            THEN Resolved(c.path, "nil", c.files, c.dirs, co1, 1, c.branch, 0, FALSE, FALSE)
            ELSE IF ~cloneOk
            THEN Resolved("", "clone", c.files, c.dirs, co1, 1, c.branch, 1, FALSE, FALSE)
            ELSE IF fault = "mkdir"
            THEN Resolved(main_tempRepoPath(config.URL), "nil", c.files, c.dirs, co1,
                          1, c.branch, 1, TRUE, FALSE)
            ELSE Resolved(cachedRepoPath, "nil", st.files, ds3, co3, 1, c.branch,
                          1, TRUE, st.err = "nil")

\* main() without -tui: the two configuration checks, then
\* processRepository.
main_main(config, t, fs, ds, co, cloneOk, fault) ==
    IF config.URL = "" /\ config.Path = ""
    THEN Resolved("", "config", fs, ds, co, 0, "none", 0, FALSE, FALSE)
    ELSE IF config.URL # "" /\ config.Path # ""
    THEN Resolved("", "config", fs, ds, co, 0, "none", 0, FALSE, FALSE)
    ELSE main_processRepository(config, t, fs, ds, co, cloneOk, fault)

(***************************************************************************)
(* package main: the confirmation of a run with -peek. What the user types *)
(* is a sequence of characters, as the patterns are.                       *)
(***************************************************************************)

UpperCase ==
    <<"A", "B", "C", "D", "E", "F", "G", "H", "I", "J", "K", "L", "M",
      "N", "O", "P", "Q", "R", "S", "T", "U", "V", "W", "X", "Y", "Z">>

LowerCase ==
    <<"a", "b", "c", "d", "e", "f", "g", "h", "i", "j", "k", "l", "m",
      "n", "o", "p", "q", "r", "s", "t", "u", "v", "w", "x", "y", "z">>

\* strings.ToLower, for ASCII
ToLower(s) ==
    [i \in 1..Len(s) |->
        IF \E k \in 1..Len(UpperCase) : UpperCase[k] = s[i]
        THEN LowerCase[CHOOSE k \in 1..Len(UpperCase) : UpperCase[k] = s[i]]
        ELSE s[i]]

WhiteSpace == {" ", "\t", "\n", "\r", "\f"}

\* strings.TrimSpace
RECURSIVE TrimSpace(_)
TrimSpace(s) ==
    IF s = << >> THEN s
    ELSE IF s[1] \in WhiteSpace THEN TrimSpace(Tail(s))
    ELSE IF s[Len(s)] \in WhiteSpace THEN TrimSpace(SubSeq(s, 1, Len(s) - 1))
    ELSE s

\* reader.ReadString('\n') on the characters stdin holds: the text up to and
\* including the first newline, or all of it when stdin ends before one
\* (the error is dropped).
ReadString(stdin) ==
    IF \E i \in 1..Len(stdin) : stdin[i] = "\n"
    THEN SubSeq(stdin, 1, CHOOSE i \in 1..Len(stdin) :
                              /\ stdin[i] = "\n"
                              /\ \A j \in 1..(i - 1) : stdin[j] # "\n")
    ELSE stdin

\* The run's variable response after the prompt.
main_response(stdin) == TrimSpace(ToLower(ReadString(stdin)))

\* The confirmation that takes every answer but n for a yes.
main_cancelled_onlyOnNo(text) == text = <<"n">>

\* response != "y" && response != "yes"
main_cancelled(text) == text # <<"y">> /\ text # <<"y", "e", "s">>

NotRead == [read |-> FALSE]

NotShown == [done |-> FALSE]

NoOutput == [written |-> FALSE]

\* What can go wrong with the output file: os.MkdirAll or os.WriteFile fails.
OutputFaults == {"none", "mkdir", "write"}

\* processRepository from "if config.peek" to the prompt: the state of the
\* run after the dry run, given its result r.
main_preview(rootPath, r) ==
    IF r.err # "nil"
    THEN [pc |-> "failed", shown |-> NotShown]
    ELSE LET relativeFiles ==
                 [i \in 1..Len(r.included) |-> Rel(rootPath, r.included[i])]
             summary == [done |-> TRUE, files |-> relativeFiles,
                         included |-> Len(r.included),
                         excluded |-> Len(r.excluded)]
         IN IF Len(r.included) = 0
            THEN [pc |-> "empty", shown |-> summary]
            ELSE [pc |-> "prompt", shown |-> summary]

\* processRepository from collectFiles to the end: the state of the run,
\* given the result r of collectFiles.
main_concatenate(r, fault) ==
    IF r.err # "nil" THEN [pc |-> "failed", output |-> NoOutput]
    ELSE IF fault # "none" THEN [pc |-> "failed", output |-> NoOutput]
    ELSE [pc |-> "done", output |-> [written |-> TRUE, files |-> r.included]]

(***************************************************************************)
(* package tui: the Bubble Tea model of a session. Of the Model the fields *)
(* state, config, urlInput (its text), focused, processing and err are     *)
(* kept; the path and pattern inputs stay empty. A handler returns the new *)
(* model and the command it starts: "none", "quit" (tea.Quit), "peek"      *)
(* (startPeek), "browse" (loadFiles) or "process" (startProcessing).       *)
(***************************************************************************)

NewModel(config) ==
    [state |-> "configView", config |-> config, urlInput |-> config.URL,
     focused |-> 0, processing |-> FALSE, err |-> "nil"]

\* The number of things the focus moves through in the configuration view.
FocusCount == 7

\* textinput.Update of the URL input: ctrl+u deletes the text, and a paste
\* (a key message that holds the runes of a URL) into the empty input makes
\* the URL its text. Any other key is left out of the text.
textinput_Update(value, key) ==
    IF key = "ctrl+u" THEN ""
    ELSE IF key \in Urls /\ value = "" THEN key
    ELSE value

updateConfigFromInputs(mdl) ==
    [mdl EXCEPT !.config = [URL |-> mdl.urlInput, Path |-> ""]]

updateConfigView(mdl, key) ==
    IF key \in {"ctrl+c", "esc"} THEN [model |-> mdl, cmd |-> "quit"]
    ELSE IF key \in {"tab", "down"}
    THEN [model |-> [mdl EXCEPT !.focused = (mdl.focused + 1) % FocusCount],
          cmd |-> "none"]
    ELSE IF key \in {"shift+tab", "up"}
    THEN [model |-> [mdl EXCEPT
                        !.focused = (mdl.focused - 1 + FocusCount) % FocusCount],
          cmd |-> "none"]
    ELSE IF key = "enter"
    THEN LET m1 == updateConfigFromInputs(mdl) IN
         IF m1.focused = 4
         THEN [model |-> [m1 EXCEPT !.state = "peekView"], cmd |-> "peek"]
         ELSE IF m1.focused = 5
         THEN [model |-> [m1 EXCEPT !.state = "fileBrowserView"], cmd |-> "browse"]
         ELSE IF m1.focused = 6
         THEN [model |-> [m1 EXCEPT !.state = "processingView",
                                    !.processing = TRUE],
               cmd |-> "process"]
         ELSE [model |-> m1, cmd |-> "none"]
    ELSE IF mdl.focused = 0
    THEN [model |-> [mdl EXCEPT !.urlInput = textinput_Update(mdl.urlInput, key)],
          cmd |-> "none"]
    ELSE [model |-> mdl, cmd |-> "none"]

\* updatePeekView where Enter does not set the processing flag.
updatePeekView_flagNotSet(mdl, key) ==
    IF key \in {"ctrl+c", "esc"} THEN [model |-> mdl, cmd |-> "quit"]
    ELSE IF key = "b"
    THEN [model |-> [mdl EXCEPT !.state = "configView"], cmd |-> "none"]
    ELSE IF key = "enter"
    THEN [model |-> [mdl EXCEPT !.state = "processingView"], cmd |-> "process"]
    ELSE [model |-> mdl, cmd |-> "none"]

updatePeekView(mdl, key) ==
    IF key \in {"ctrl+c", "esc"} THEN [model |-> mdl, cmd |-> "quit"]
    ELSE IF key = "b"
    THEN [model |-> [mdl EXCEPT !.state = "configView"], cmd |-> "none"]
    ELSE IF key = "enter"
    THEN [model |-> [mdl EXCEPT !.state = "processingView", !.processing = TRUE],
          cmd |-> "process"]
    ELSE [model |-> mdl, cmd |-> "none"]

\* (The selection that the space key toggles, and the list's cursor, are
\* not among the fields kept.)
updateFileBrowserView(mdl, key) ==
    IF key \in {"ctrl+c", "esc"} THEN [model |-> mdl, cmd |-> "quit"]
    ELSE IF key = "b"
    THEN [model |-> [mdl EXCEPT !.state = "configView"], cmd |-> "none"]
    ELSE IF key = "enter"
    THEN [model |-> [mdl EXCEPT !.state = "processingView", !.processing = TRUE],
          cmd |-> "process"]
    ELSE [model |-> mdl, cmd |-> "none"]

updateProcessingView(mdl, key) ==
    IF key \in {"ctrl+c", "esc"} THEN [model |-> mdl, cmd |-> "quit"]
    ELSE [model |-> mdl, cmd |-> "none"]

updateResultsView(mdl, key) ==
    IF key \in {"ctrl+c", "esc"} THEN [model |-> mdl, cmd |-> "quit"]
    ELSE IF key = "enter"
    THEN [model |-> [mdl EXCEPT !.state = "configView", !.err = "nil",
                                !.processing = FALSE],
          cmd |-> "none"]
    ELSE [model |-> mdl, cmd |-> "none"]

\* Model.Update(msg)
Update(mdl, msg) ==
    IF msg.type = "KeyMsg"
    THEN CASE mdl.state = "configView" -> updateConfigView(mdl, msg.key)
           [] mdl.state = "peekView" -> updatePeekView(mdl, msg.key)
           [] mdl.state = "fileBrowserView" -> updateFileBrowserView(mdl, msg.key)
           [] mdl.state = "processingView" -> updateProcessingView(mdl, msg.key)
           [] mdl.state = "resultsView" -> updateResultsView(mdl, msg.key)
    ELSE IF msg.type = "processingCompleteMsg"
    THEN [model |-> [mdl EXCEPT !.processing = FALSE, !.err = msg.err,
                                !.state = "resultsView"],
          cmd |-> "none"]
    ELSE IF msg.type = "filesLoadedMsg"
    THEN [model |-> mdl, cmd |-> "none"]
    ELSE IF msg.type = "peekCompleteMsg"
    THEN [model |-> [mdl EXCEPT !.err = msg.err], cmd |-> "none"]
    ELSE IF msg.type = "errorMsg"
    THEN [model |-> [mdl EXCEPT !.err = msg.err], cmd |-> "none"]
    ELSE [model |-> mdl, cmd |-> "none"]

\* A command that runs: the function startPeek, loadFiles or
\* startProcessing returned, with the configuration it took from the model
\* and the call it is in ("resolve": resolveRepositoryPath, "scan":
\* performDryRun or collectFiles, "write": the concatenation and the output
\* file).
Command(kind, config) ==
    [kind |-> kind, config |-> config, phase |-> "resolve"]

\* Whether the command returns when the call it is in returns, without
\* error (ok) or with one.
commandReturns(c, ok) ==
    \/ ~ok
    \/ c.phase = "write"
    \/ c.phase = "scan" /\ c.kind # "process"

\* The command in its next call.
commandStep(c) ==
    [c EXCEPT !.phase = IF c.phase = "resolve" THEN "scan" ELSE "write"]

\* The error a call returns: of an error only whether it is nil is kept.
commandErr(c, ok) == IF ok THEN "nil" ELSE "error"

\* The message a command returns.
commandMsg(c, ok) ==
    IF c.kind = "peek" THEN [type |-> "peekCompleteMsg", err |-> commandErr(c, ok)]
    ELSE IF c.kind = "browse"
    THEN IF ok THEN [type |-> "filesLoadedMsg"]
         ELSE [type |-> "errorMsg", err |-> commandErr(c, ok)]
    ELSE [type |-> "processingCompleteMsg", err |-> commandErr(c, ok)]

(***************************************************************************)
(* The values of the variables a specification does not use.               *)
(***************************************************************************)

NotRun == [err |-> "notrun"]

NotCalled == [done |-> FALSE, result |-> FALSE]

NoCall == [op |-> "none"]

NoStore == [stored |-> FALSE]

ScanIdle ==
    /\ scanRoot = RootA
    /\ exclusions = << >>
    /\ inclusions = << >>
    /\ mainCollect = NotRun
    /\ mainDryRun = NotRun
    /\ tuiCollect = NotRun
    /\ tuiDryRun = NotRun

MatchIdle ==
    /\ matchPattern = << >>
    /\ matchPath = << >>
    /\ mainMatch = NotCalled
    /\ tuiMatch = NotCalled

CacheIdle ==
    /\ now = 0
    /\ metadata = [f \in MetadataPaths |-> NoFile]
    /\ dirs = {}
    /\ lastCall = NoCall
    /\ latestStore = [u \in Urls |-> NoStore]

ResolveIdle ==
    /\ checkout = [p \in CheckoutPaths |-> NoClone]
    /\ enableTUI = FALSE

RunIdle ==
    /\ peek = FALSE
    /\ pc = "none"
    /\ response = NotRead
    /\ shown = NotShown
    /\ output = NoOutput

SessionIdle ==
    /\ model = NewModel([URL |-> "", Path |-> ""])
    /\ running = EmptyBag
    /\ quit = FALSE
    /\ ledTo = "nil"

(***************************************************************************)
(* The scans: the inputs are fixed by the initial state, every action runs *)
(* one scan of the tree to its end.                                        *)
(***************************************************************************)

ExclusionLists ==
    {<< >>, <<Pat_txt>>, <<Pat_src>>, <<Pat_bad>>, <<Glob_main, Pat_pkg>>}

InclusionLists ==
    {<< >>, <<Pat_go>>, <<Pat_src>>, <<Pat_txt, Pat_svg>>, <<Glob_go>>,
     <<Pat_bad>>}

ScanInputs == Roots \X ExclusionLists \X InclusionLists

\* The scans' results for every input of the model, computed once (the disk
\* does not change); the actions look their result up. (f @@ << >> is f,
\* as an explicit table.)
MainCollectFilesOf ==
    [a \in ScanInputs |-> main_collectFiles(a[1], a[2], a[3])] @@ << >>

MainPerformDryRunOf ==
    [a \in ScanInputs |-> main_performDryRun(a[1], a[2], a[3])] @@ << >>

TuiCollectFilesOf ==
    [a \in ScanInputs |-> tui_collectFiles(a[1], a[2], a[3])] @@ << >>

TuiPerformDryRunOf ==
    [a \in ScanInputs |-> tui_performDryRun(a[1], a[2], a[3])] @@ << >>

ScanInit ==
    /\ scanRoot \in Roots
    /\ exclusions \in ExclusionLists
    /\ inclusions \in InclusionLists
    /\ mainCollect = NotRun
    /\ mainDryRun = NotRun
    /\ tuiCollect = NotRun
    /\ tuiDryRun = NotRun
    /\ MatchIdle
    /\ CacheIdle
    /\ ResolveIdle
    /\ RunIdle
    /\ SessionIdle

\* main.collectFiles(repoPath, config.exclusions, config.inclusions)
MainCollectFiles ==
    /\ mainCollect' = MainCollectFilesOf[<<scanRoot, exclusions, inclusions>>]
    /\ UNCHANGED <<scanRoot, exclusions, inclusions,
                   mainDryRun, tuiCollect, tuiDryRun,
                   matchVars, cacheVars, resolveVars,
                   runVars, sessionVars>>

\* main.performDryRun(repoPath, config.exclusions, config.inclusions)
MainPerformDryRun ==
    /\ mainDryRun' = MainPerformDryRunOf[<<scanRoot, exclusions, inclusions>>]
    /\ UNCHANGED <<scanRoot, exclusions, inclusions,
                   mainCollect, tuiCollect, tuiDryRun,
                   matchVars, cacheVars, resolveVars,
                   runVars, sessionVars>>

\* tui.collectFiles(rootPath, config.Exclude, config.Include)
TuiCollectFiles ==
    /\ tuiCollect' = TuiCollectFilesOf[<<scanRoot, exclusions, inclusions>>]
    /\ UNCHANGED <<scanRoot, exclusions, inclusions,
                   mainCollect, mainDryRun, tuiDryRun,
                   matchVars, cacheVars, resolveVars,
                   runVars, sessionVars>>

\* tui.performDryRun(rootPath, config.Exclude, config.Include)
TuiPerformDryRun ==
    /\ tuiDryRun' = TuiPerformDryRunOf[<<scanRoot, exclusions, inclusions>>]
    /\ UNCHANGED <<scanRoot, exclusions, inclusions,
                   mainCollect, mainDryRun, tuiCollect,
                   matchVars, cacheVars, resolveVars,
                   runVars, sessionVars>>

ScanNext ==
    \/ MainCollectFiles
    \/ MainPerformDryRun
    \/ TuiCollectFiles
    \/ TuiPerformDryRun

SpecScan == ScanInit /\ [][ScanNext]_vars

(***************************************************************************)
(* One call of matchesPattern in each package, on a pattern and a relative *)
(* path the initial state fixes; the callers pass filepath.Base of the     *)
(* path as baseName.                                                       *)
(***************************************************************************)

MatchPatterns ==
    {Pat_go, Pat_x_go, Pat_pkg, Pat_all_go, Pat_bad, Glob_go, Glob_main,
     Glob_sub, Pat_src, Pat_src_dir, Pat_src_ut, Pat_util, Pat_slash}

MatchPaths ==
    {P_a_go, P_lib_b_go, P_main_go, P_main_go_bak, P_pkg_sub_x_go, P_src_a_go,
     P_utils_a_go, P_utilities_x, P_src_util_go}

MatchInit ==
    /\ matchPattern \in MatchPatterns
    /\ matchPath \in MatchPaths
    /\ mainMatch = NotCalled
    /\ tuiMatch = NotCalled
    /\ ScanIdle
    /\ CacheIdle
    /\ ResolveIdle
    /\ RunIdle
    /\ SessionIdle

\* main.matchesPattern(pattern, relativePath, filepath.Base(path))
MainMatchesPattern ==
    /\ mainMatch' = [done |-> TRUE,
                     result |-> main_matchesPattern(matchPattern, matchPath,
                                                    Base(matchPath))]
    /\ UNCHANGED <<matchPattern, matchPath, tuiMatch, scanVars, cacheVars, resolveVars,
                   runVars, sessionVars>>

\* tui.matchesPattern(pattern, relativePath, baseName)
TuiMatchesPattern ==
    /\ tuiMatch' = [done |-> TRUE,
                    result |-> tui_matchesPattern(matchPattern, matchPath,
                                                  Base(matchPath))]
    /\ UNCHANGED <<matchPattern, matchPath, mainMatch, scanVars, cacheVars, resolveVars,
                   runVars, sessionVars>>

MatchNext ==
    \/ MainMatchesPattern
    \/ TuiMatchesPattern

SpecMatch == MatchInit /\ [][MatchNext]_vars

(***************************************************************************)
(* The cache over time: calls of cacheRepo and getCachedRepo, the clock,   *)
(* and repository directories that appear (a clone) and disappear.         *)
(***************************************************************************)

MaxTime == 6

CacheInit ==
    /\ now = 0
    /\ metadata = [f \in MetadataPaths |-> NoFile]
    /\ dirs = {}
    /\ lastCall = NoCall
    /\ latestStore = [u \in Urls |-> NoStore]
    /\ ScanIdle
    /\ MatchIdle
    /\ ResolveIdle
    /\ RunIdle
    /\ SessionIdle

\* The latest store of a URL is forgotten once its entry is no longer the
\* content of the metadata file.
Forget(stores, fs) ==
    [u \in Urls |-> IF fs[MetadataPath(u)].kind = "entry"
                    THEN stores[u] ELSE NoStore]

\* cacheRepo(githubURL, repoPath)
CacheRepo(githubURL, repoPath, fault) ==
    LET r == cacheRepo(githubURL, repoPath, now, metadata, fault)
        old == metadata[MetadataPath(githubURL)]
        stored == [stored |-> TRUE, repoPath |-> repoPath, at |-> now,
                   overwrote |-> old.kind = "entry" /\ old.repoPath # repoPath]
    IN /\ metadata' = r.files
       /\ lastCall' = [op |-> "cacheRepo", url |-> githubURL, err |-> r.err]
       /\ latestStore' =
              IF r.err = "nil"
              THEN [latestStore EXCEPT ![githubURL] = stored]
              ELSE Forget(latestStore, r.files)
       /\ UNCHANGED <<now, dirs, scanVars, matchVars, resolveVars,
                   runVars, sessionVars>>

\* getCachedRepo(githubURL)
GetCachedRepo(githubURL) ==
    LET r == getCachedRepo(githubURL, now, metadata, dirs) IN
    /\ metadata' = r.files
    /\ dirs' = r.dirs
    /\ lastCall' = [op |-> "getCachedRepo", url |-> githubURL,
                    path |-> r.path, found |-> r.found,
                    cachedAt |-> r.cachedAt, err |-> r.err,
                    branch |-> r.branch]
    /\ latestStore' = Forget(latestStore, r.files)
    /\ UNCHANGED <<now, scanVars, matchVars, resolveVars,
                   runVars, sessionVars>>

\* A minute passes.
Tick ==
    /\ now < MaxTime
    /\ now' = now + 1
    /\ lastCall' = NoCall
    /\ UNCHANGED <<metadata, dirs, latestStore, scanVars, matchVars, resolveVars,
                   runVars, sessionVars>>

\* cloneRepository, or main's os.Rename of the clone, makes the directory.
MakeDir(repoPath) ==
    /\ repoPath \notin dirs
    /\ dirs' = dirs \cup {repoPath}
    /\ lastCall' = NoCall
    /\ UNCHANGED <<now, metadata, latestStore, scanVars, matchVars, resolveVars,
                   runVars, sessionVars>>

\* os.RemoveAll(repoPath) before a clone, or anyone clearing /tmp, removes
\* the directory.
RemoveDir(repoPath) ==
    /\ repoPath \in dirs
    /\ dirs' = dirs \ {repoPath}
    /\ lastCall' = NoCall
    /\ UNCHANGED <<now, metadata, latestStore, scanVars, matchVars, resolveVars,
                   runVars, sessionVars>>

CacheNext ==
    \/ \E u \in Urls, fault \in CacheFaults :
           \E p \in RepoPathsOf(u) : CacheRepo(u, p, fault)
    \/ \E u \in Urls : GetCachedRepo(u)
    \/ Tick
    \/ \E p \in RepoPaths : MakeDir(p)
    \/ \E p \in RepoPaths : RemoveDir(p)

SpecCache == CacheInit /\ [][CacheNext]_vars

(***************************************************************************)
(* Resolutions over time, on one cache directory: runs of the command line *)
(* or, with -tui, resolutions that TUI sessions start (a behaviour has one *)
(* or the other), the clock, and repository directories someone deletes.   *)
(***************************************************************************)

\* What happens to a resolution from outside: whether git clone succeeds,
\* and what goes wrong with the cache directory. (A failing clone with a
\* fault, and either with a configuration that names no URL alone, end as
\* one of these does.)
Outcomes(config) ==
    IF config.URL # "" /\ config.Path = ""
    THEN {<<TRUE, "none">>, <<FALSE, "none">>, <<TRUE, "mkdir">>, <<TRUE, "write">>}
    ELSE {<<TRUE, "none">>}

ResolveInit ==
    /\ now = 0
    /\ metadata = [f \in MetadataPaths |-> NoFile]
    /\ dirs = {}
    /\ lastCall = NoCall
    /\ latestStore = [u \in Urls |-> NoStore]
    /\ checkout = [p \in CheckoutPaths |-> NoClone]
    /\ enableTUI \in BOOLEAN
    /\ ScanIdle
    /\ MatchIdle
    /\ RunIdle
    /\ SessionIdle

\* The state a resolution leaves, and what it returned.
Resolve(package, config, cloneOk, fault, r) ==
    LET stored == [stored |-> TRUE, repoPath |-> r.path, at |-> now,
                   overwrote |-> FALSE]
    IN /\ metadata' = r.files
       /\ dirs' = r.dirs
       /\ checkout' = r.checkout
       /\ lastCall' = [op |-> "resolve", package |-> package, config |-> config,
                       fault |-> fault, path |-> r.path, err |-> r.err,
                       lookups |-> r.lookups, branch |-> r.branch,
                       fetches |-> r.fetches, fetched |-> r.fetched,
                       stored |-> r.stored]
       /\ latestStore' =
              IF r.stored
              THEN [Forget(latestStore, r.files) EXCEPT ![config.URL] = stored]
              ELSE Forget(latestStore, r.files)
       /\ UNCHANGED <<now, enableTUI, scanVars, matchVars, runVars, sessionVars>>

\* main() without -tui
MainRun(config, cloneOk, fault) ==
    /\ ~enableTUI
    /\ Resolve("main", config, cloneOk, fault,
            main_main(config, now, metadata, dirs, checkout, cloneOk, fault))

\* startPeek, loadFiles or processRepositoryTUI of a TUI session:
\* resolveRepositoryPath(m.config)
TuiResolve(config, cloneOk, fault) ==
    /\ enableTUI
    /\ Resolve("tui", config, cloneOk, fault,
            tui_resolveRepositoryPath(config, now, metadata, dirs, checkout,
                                      cloneOk, fault))

\* Someone removes a repository directory from /tmp.
DirectoryLost(repoPath) ==
    /\ repoPath \in dirs
    /\ dirs' = dirs \ {repoPath}
    /\ checkout' = [checkout EXCEPT ![repoPath] = NoClone]
    /\ lastCall' = NoCall
    /\ UNCHANGED <<now, metadata, latestStore, enableTUI, scanVars, matchVars,
                   runVars, sessionVars>>

ResolveNext ==
    \/ \E config \in Configs : \E o \in Outcomes(config) :
           MainRun(config, o[1], o[2])
    \/ \E config \in Configs : \E o \in Outcomes(config) :
           TuiResolve(config, o[1], o[2])
    \/ Tick
    \/ \E p \in CheckoutPaths : DirectoryLost(p)

SpecResolve == ResolveInit /\ [][ResolveNext]_vars

(***************************************************************************)
(* A command-line run from the resolved repository on: with -peek the dry  *)
(* run, its display and the prompt, then the user's answer; then the       *)
(* collection and the output file. The repository is one of the trees, the *)
(* patterns are the run's -exclude and -include lists.                     *)
(***************************************************************************)

\* What the user may type at the prompt (the empty one: stdin is closed).
Answers ==
    {<<"y", "\n">>, <<"y", "e", "s", "\n">>, <<"Y", "\n">>,
     <<" ", "Y", "E", "S", " ", "\n">>, <<"y", "e", "s">>,
     <<"n", "\n">>, <<"\n">>, << >>, <<"y", "e", "\n">>,
     <<"n", "o", "\n", "y", "\n">>}

RunInit ==
    /\ scanRoot \in Roots
    /\ exclusions \in ExclusionLists
    /\ inclusions \in InclusionLists
    /\ mainCollect = NotRun
    /\ mainDryRun = NotRun
    /\ tuiCollect = NotRun
    /\ tuiDryRun = NotRun
    /\ peek \in BOOLEAN
    /\ pc = "resolved"
    /\ response = NotRead
    /\ shown = NotShown
    /\ output = NoOutput
    /\ MatchIdle
    /\ CacheIdle
    /\ ResolveIdle
    /\ SessionIdle

\* With -peek: the dry run, the tree and the summary, and the prompt.
Preview ==
    /\ pc = "resolved"
    /\ peek
    /\ LET r == MainPerformDryRunOf[<<scanRoot, exclusions, inclusions>>]
           next == main_preview(scanRoot, r)
       IN /\ mainDryRun' = r
          /\ pc' = next.pc
          /\ shown' = next.shown
    /\ UNCHANGED <<scanRoot, exclusions, inclusions, mainCollect, tuiCollect,
                   tuiDryRun, peek, response, output,
                   matchVars, cacheVars, resolveVars, sessionVars>>

\* The user's answer arrives on stdin.
Answer(stdin) ==
    /\ pc = "prompt"
    /\ LET text == main_response(stdin) IN
       /\ response' = [read |-> TRUE, text |-> text]
       /\ pc' = IF main_cancelled(text) THEN "cancelled" ELSE "collect"
    /\ UNCHANGED <<scanVars, peek, shown, output,
                   matchVars, cacheVars, resolveVars, sessionVars>>

\* collectFiles, concatenateFiles and the output file.
Concatenate(fault) ==
    /\ pc = "collect" \/ (pc = "resolved" /\ ~peek)
    /\ LET r == MainCollectFilesOf[<<scanRoot, exclusions, inclusions>>]
           next == main_concatenate(r, fault)
       IN /\ mainCollect' = r
          /\ pc' = next.pc
          /\ output' = next.output
    /\ UNCHANGED <<scanRoot, exclusions, inclusions, mainDryRun, tuiCollect,
                   tuiDryRun, peek, response, shown,
                   matchVars, cacheVars, resolveVars, sessionVars>>

RunNext ==
    \/ Preview
    \/ \E stdin \in Answers : Answer(stdin)
    \/ \E fault \in OutputFaults : Concatenate(fault)

SpecRun == RunInit /\ [][RunNext]_vars

(***************************************************************************)
(* A TUI session: key presses, the commands they start, which run          *)
(* concurrently with the session, and the messages the commands return,    *)
(* which Update receives in any order.                                     *)
(***************************************************************************)

\* The commands that can be running at once.
MaxCommands == 2

\* The keys pressed: one for each thing a handler does with a key, and esc
\* besides ctrl+c.
Keys ==
    {"ctrl+c", "esc", "tab", "shift+tab", "enter", "b", "ctrl+u"} \cup Urls

SessionInit ==
    /\ \E u \in Urls \cup {""} : model = NewModel([URL |-> u, Path |-> ""])
    /\ running = EmptyBag
    /\ quit = FALSE
    /\ ledTo = "nil"
    /\ ScanIdle
    /\ MatchIdle
    /\ CacheIdle
    /\ ResolveIdle
    /\ RunIdle

\* A key message arrives; the command Update returns starts to run. On
\* tea.Quit the program ends, and the commands that run end with it.
Press(key) ==
    LET r == Update(model, [type |-> "KeyMsg", key |-> key]) IN
    /\ ~quit
    /\ r.cmd \in {"peek", "browse", "process"} =>
           BagCardinality(running) < MaxCommands
    /\ model' = r.model
    /\ quit' = (r.cmd = "quit")
    /\ running' =
           IF r.cmd \in {"peek", "browse", "process"}
           THEN running (+) SetToBag({Command(r.cmd, r.model.config)})
           ELSE IF r.cmd = "quit" THEN EmptyBag
           ELSE running
    /\ UNCHANGED <<ledTo, scanVars, matchVars, cacheVars, resolveVars, runVars>>

\* Whether the call the command is in can return without error (ok) or
\* with one: without a URL (and a path) the resolution fails.
CanReturn(c, ok) ==
    (c.phase = "resolve" /\ c.config.URL = "") => ~ok

\* The call a command is in returns without error, and the command goes on.
CommandStep(c) ==
    /\ ~quit
    /\ BagIn(c, running)
    /\ CanReturn(c, TRUE)
    /\ ~commandReturns(c, TRUE)
    /\ running' = (running (-) SetToBag({c})) (+) SetToBag({commandStep(c)})
    /\ UNCHANGED <<model, quit, ledTo,
                   scanVars, matchVars, cacheVars, resolveVars, runVars>>

\* The last call of a command returns, and Update receives the command's
\* message.
CommandReturn(c, ok) ==
    /\ ~quit
    /\ BagIn(c, running)
    /\ CanReturn(c, ok)
    /\ commandReturns(c, ok)
    /\ LET msg == commandMsg(c, ok) IN
       /\ model' = Update(model, msg).model
       /\ ledTo' = IF msg.type = "processingCompleteMsg" THEN msg.err ELSE ledTo
    /\ running' = running (-) SetToBag({c})
    /\ UNCHANGED <<quit, scanVars, matchVars, cacheVars, resolveVars, runVars>>

SessionNext ==
    \/ \E key \in Keys : Press(key)
    \/ \E c \in BagToSet(running) : CommandStep(c)
    \/ \E c \in BagToSet(running), ok \in BOOLEAN : CommandReturn(c, ok)

SpecSession == SessionInit /\ [][SessionNext]_vars

(***************************************************************************)
(* Properties of the scans (SpecScan)                                      *)
(***************************************************************************)

Ran(r) == r.err # "notrun"

\* The paths of the files (not the directories) under a root.
FilePaths(root) == {e.path : e \in {x \in Range(Walk(root)) : ~x.isDir}}

\* The patterns a scan excludes by: the built-in ones and the user's.
AllExclusions == Range(defaultExclusionPatterns) \cup Range(exclusions)

MainMatches(pattern, path) ==
    main_matchesPattern(pattern, Rel(scanRoot, path), Base(path))

TuiMatches(pattern, path) ==
    tui_matchesPattern(pattern, Rel(scanRoot, path), Base(path))

\* C1: on the same tree, exclusion list and inclusion list, collectFiles and
\* performDryRun return the same included list, in package main (where the
\* two test in a different order) and in package tui.
C1_ModeInvariance ==
    /\ (Ran(mainCollect) /\ Ran(mainDryRun))
           => mainCollect.included = mainDryRun.included
    /\ (Ran(tuiCollect) /\ Ran(tuiDryRun))
           => tuiCollect.included = tuiDryRun.included

\* Both scans of package main have run on the classifier's tree with an
\* inclusion pattern that also matches binary files: the order of the tests
\* differs, files are included and files are excluded.
C1_Witness ==
    /\ scanRoot = RootC
    /\ inclusions = <<Pat_go>>
    /\ Ran(mainCollect) /\ Ran(mainDryRun)
    /\ mainDryRun.err = "nil"
    /\ Len(mainCollect.included) > 0
    /\ \E f \in Range(mainDryRun.excluded) : MainMatches(Pat_go, f)

\* C2: a file that matches an exclusion pattern, built-in or user-supplied,
\* is in no scan's included list, whatever the inclusion patterns are.
C2_ExclusionWins ==
    /\ Ran(mainCollect) =>
          \A f \in Range(mainCollect.included) :
              \A p \in AllExclusions : ~MainMatches(p, f)
    /\ Ran(mainDryRun) =>
          \A f \in Range(mainDryRun.included) :
              \A p \in AllExclusions : ~MainMatches(p, f)
    /\ Ran(tuiCollect) =>
          \A f \in Range(tuiCollect.included) :
              \A p \in AllExclusions : ~TuiMatches(p, f)
    /\ Ran(tuiDryRun) =>
          \A f \in Range(tuiDryRun.included) :
              \A p \in AllExclusions : ~TuiMatches(p, f)

\* A text file matches a built-in exclusion pattern and an inclusion
\* pattern, and both dry runs put it in the excluded list.
C2_Witness ==
    /\ Ran(mainDryRun) /\ mainDryRun.err = "nil"
    /\ Ran(tuiDryRun) /\ tuiDryRun.err = "nil"
    /\ \E f \in Range(mainDryRun.excluded) \cap Range(tuiDryRun.excluded) :
          /\ main_isTextFile(f) /\ tui_isTextFile(f)
          /\ \E p \in Range(defaultExclusionPatterns) :
                MainMatches(p, f) /\ TuiMatches(p, f)
          /\ \E p \in Range(inclusions) :
                MainMatches(p, f) /\ TuiMatches(p, f)

\* What C3 says of one scan's included list.
InclusionRule(included, IsText(_), Matches(_, _)) ==
    \A f \in FilePaths(scanRoot) :
        (IsText(f) /\ \A p \in AllExclusions : ~Matches(p, f))
            => (f \in Range(included)
                   <=> \/ inclusions = << >>
                       \/ \E p \in Range(inclusions) : Matches(p, f))

\* C3: in a scan that ended without error, a text file that matches no
\* exclusion pattern is included iff the inclusion list is empty or the file
\* matches one of its patterns.
C3_InclusionRule ==
    /\ (Ran(mainCollect) /\ mainCollect.err = "nil") =>
          InclusionRule(mainCollect.included, main_isTextFile, MainMatches)
    /\ (Ran(mainDryRun) /\ mainDryRun.err = "nil") =>
          InclusionRule(mainDryRun.included, main_isTextFile, MainMatches)
    /\ (Ran(tuiCollect) /\ tuiCollect.err = "nil") =>
          InclusionRule(tuiCollect.included, tui_isTextFile, TuiMatches)
    /\ (Ran(tuiDryRun) /\ tuiDryRun.err = "nil") =>
          InclusionRule(tuiDryRun.included, tui_isTextFile, TuiMatches)

\* With a non-empty inclusion list and no user exclusion, of two text files
\* that match no exclusion pattern the one that matches the inclusion
\* pattern is included and the other is not.
C3_Witness ==
    /\ scanRoot = RootA
    /\ exclusions = << >>
    /\ inclusions = <<Pat_go>>
    /\ Ran(mainDryRun) /\ Ran(tuiDryRun)
    /\ Join(RootA, P_a_go) \in Range(mainDryRun.included) \cap Range(tuiDryRun.included)
    /\ Join(RootA, P_b_txt) \in Range(mainDryRun.excluded) \cap Range(tuiDryRun.excluded)

\* What C4 says of one dry run's lists.
Partition(r) ==
    LET all == r.included \o r.excluded IN
    /\ Range(all) = FilePaths(scanRoot)
    /\ Len(all) = Cardinality(FilePaths(scanRoot))

\* C4: after a dry run without error, every file under the root is exactly
\* once in exactly one of the two lists, and no directory is in either.
C4_Partition ==
    /\ (Ran(mainDryRun) /\ mainDryRun.err = "nil") => Partition(mainDryRun)
    /\ (Ran(tuiDryRun) /\ tuiDryRun.err = "nil") => Partition(tuiDryRun)

\* Both dry runs ended without error on the tree with nested directories,
\* and both lists hold files.
C4_Witness ==
    /\ scanRoot = RootB
    /\ Ran(mainDryRun) /\ mainDryRun.err = "nil"
    /\ Ran(tuiDryRun) /\ tuiDryRun.err = "nil"
    /\ Len(mainDryRun.included) > 0 /\ Len(mainDryRun.excluded) > 0
    /\ Len(tuiDryRun.included) > 0 /\ Len(tuiDryRun.excluded) > 0

\* The file at path can be read and has a null byte among its first
\* SampleSize bytes.
NullInSample(path) ==
    LET file == Stat(path) IN
    /\ ~file.openErr /\ ~file.readErr
    /\ \E i \in file.nulls : i <= SampleSize /\ i <= file.size

\* C5: a file with a null byte among its first 512 bytes is classified
\* binary by both classifiers and is in no scan's included list.
C5_NullByteIsBinary ==
    \A f \in {g \in FilePaths(scanRoot) : NullInSample(g)} :
        /\ ~main_isTextFile(f)
        /\ ~tui_isTextFile(f)
        /\ Ran(mainCollect) => f \notin Range(mainCollect.included)
        /\ Ran(mainDryRun) => f \notin Range(mainDryRun.included)
        /\ Ran(tuiCollect) => f \notin Range(tuiCollect.included)
        /\ Ran(tuiDryRun) => f \notin Range(tuiDryRun.included)

\* A file with a null byte as its 512th byte matches the inclusion pattern
\* and no exclusion pattern, and is excluded; the file whose first null byte
\* is the 513th is included.
C5_Witness ==
    /\ scanRoot = RootC
    /\ exclusions = << >>
    /\ inclusions = <<Pat_go>>
    /\ Ran(mainCollect) /\ Ran(mainDryRun) /\ Ran(tuiDryRun)
    /\ Join(RootC, P_bin_go) \in Range(mainDryRun.excluded) \cap Range(tuiDryRun.excluded)
    /\ Join(RootC, P_bin_go) \notin Range(mainCollect.included)
    /\ Join(RootC, P_big_go) \in Range(mainCollect.included) \cap Range(tuiDryRun.included)

\* C7 (as the specification states it): the glob *.go, given as the only
\* inclusion pattern, is accepted by every scan, which includes main.go and
\* pkg/sub/x.go and does not include main.go.bak.
C7_GlobAccepted ==
    (scanRoot = RootB /\ exclusions = << >> /\ inclusions = <<Glob_go>>) =>
        \A r \in {s \in {mainCollect, mainDryRun, tuiCollect, tuiDryRun} : Ran(s)} :
            /\ r.err = "nil"
            /\ Join(RootB, P_main_go) \in Range(r.included)
            /\ Join(RootB, P_pkg_sub_x_go) \in Range(r.included)
            /\ Join(RootB, P_main_go_bak) \notin Range(r.included)

(***************************************************************************)
(* Properties of matchesPattern (SpecMatch)                                *)
(***************************************************************************)

\* The first path segment of the path has the pattern, less its leading
\* separator, as a prefix.
FirstSegmentHasPrefix ==
    LET d == TrimPrefix(matchPattern, <<"/">>)
        first == FirstPart(matchPath)
    IN Len(d) <= Len(first) /\ SubSeq(first, 1, Len(d)) = d

\* C6 (as the specification states it): a pattern "/"+d matches a relative
\* path iff the path's first segment has d as a prefix, in both packages
\* and for every d, one that contains or ends with a separator included.
C6_FirstSegmentPrefix ==
    HasPrefix(matchPattern, <<"/">>) =>
        /\ mainMatch.done => (mainMatch.result <=> FirstSegmentHasPrefix)
        /\ tuiMatch.done => (tuiMatch.result <=> FirstSegmentHasPrefix)

\* The regex a package compiles for a pattern matches the relative path or
\* the base name.
EitherMatches(regexPattern) ==
    /\ WellFormed(regexPattern)
    /\ \/ Search(regexPattern, matchPath)
       \/ Search(regexPattern, Base(matchPath))

\* C8: a pattern that does not start with / matches a file iff the regex
\* compiled for it (in package tui the translation of a glob) matches the
\* file's relative path or its base name.
C8_PathOrBaseName ==
    ~HasPrefix(matchPattern, <<"/">>) =>
        /\ mainMatch.done => (mainMatch.result <=> EitherMatches(matchPattern))
        /\ tuiMatch.done =>
              (tuiMatch.result <=> EitherMatches(tui_regexPattern(matchPattern)))

\* The anchored regex ^x\.go$ matches the base name of pkg/sub/x.go and not
\* its relative path, and both packages report a match.
C8_Witness ==
    /\ matchPattern = Pat_x_go
    /\ matchPath = P_pkg_sub_x_go
    /\ ~Search(Pat_x_go, P_pkg_sub_x_go)
    /\ Search(Pat_x_go, Base(P_pkg_sub_x_go))
    /\ mainMatch.done /\ mainMatch.result
    /\ tuiMatch.done /\ tuiMatch.result

(***************************************************************************)
(* Properties of the cache (SpecCache)                                     *)
(***************************************************************************)

\* C9: a lookup of a URL before the TTL of its latest store has elapsed,
\* with the stored directory present, returns found and the path of that
\* latest store.
C9_StoreThenLookup ==
    [][\A u \in Urls :
          (/\ GetCachedRepo(u)
           /\ latestStore[u].stored
           /\ now < latestStore[u].at + TTL
           /\ latestStore[u].repoPath \in dirs)
          => (/\ lastCall'.found
              /\ lastCall'.path = latestStore[u].repoPath
              /\ lastCall'.err = "nil")]_vars

\* A lookup in the last minute before expiry has just returned the path of
\* a store that overwrote an entry with another path.
C9_Witness ==
    /\ lastCall.op = "getCachedRepo"
    /\ lastCall.found
    /\ latestStore[lastCall.url].stored
    /\ latestStore[lastCall.url].overwrote
    /\ lastCall.path = latestStore[lastCall.url].repoPath
    /\ now = latestStore[lastCall.url].at + TTL - 1

\* C10 (as the specification states it): a lookup of a URL whose metadata
\* holds an entry, at a time now >= expiresAt, returns not-found and leaves
\* neither the metadata file nor the entry's directory.
C10_ExpiredAtOrAfter ==
    [][\A u \in Urls :
          LET entry == metadata[MetadataPath(u)] IN
          (/\ GetCachedRepo(u)
           /\ entry.kind = "entry"
           /\ now >= entry.expiresAt)
          => (/\ ~lastCall'.found
              /\ metadata'[MetadataPath(u)] = NoFile
              /\ entry.repoPath \notin dirs')]_vars

\* C11: a lookup of a URL whose entry is unexpired while the directory at
\* its path does not exist returns not-found and no error, removes that
\* URL's metadata file, and changes no other file and no directory.
C11_MissingDirectory ==
    [][\A u \in Urls :
          LET entry == metadata[MetadataPath(u)] IN
          (/\ GetCachedRepo(u)
           /\ entry.kind = "entry"
           /\ now < entry.expiresAt
           /\ entry.repoPath \notin dirs)
          => (/\ ~lastCall'.found
              /\ lastCall'.err = "nil"
              /\ metadata' = [metadata EXCEPT ![MetadataPath(u)] = NoFile]
              /\ dirs' = dirs)]_vars

\* A lookup has just found the directory of an unexpired entry missing,
\* while the other URL has an entry and another repository directory
\* exists.
C11_Witness ==
    /\ lastCall.op = "getCachedRepo"
    /\ lastCall.branch = "missing"
    /\ ~lastCall.found
    /\ metadata[MetadataPath(lastCall.url)] = NoFile
    /\ \E u \in Urls \ {lastCall.url} : metadata[MetadataPath(u)].kind = "entry"
    /\ dirs # {}

(***************************************************************************)
(* Properties of the resolutions (SpecResolve). In a step that a           *)
(* resolution makes, lastCall' holds what it was given, did and returned.  *)
(***************************************************************************)

\* The step is a resolution of a configuration with the URL u and no local
\* path.
ResolvesUrl(u) ==
    /\ lastCall'.op = "resolve"
    /\ lastCall'.config.URL = u
    /\ lastCall'.config.Path = ""

\* The resolution left the cache as it was.
CacheUntouched ==
    /\ metadata' = metadata
    /\ dirs' = dirs
    /\ checkout' = checkout

\* C12 (as the specification states it): a resolution of a URL looks the
\* URL up first; on a hit it returns the cached path, fetches nothing and
\* writes no metadata; it fetches only after the lookup missed; a
\* successful fetch is followed by the store of the path it returns; and a
\* resolution within the TTL of the latest store, with the directory
\* present, is a hit that returns the stored path.
C12_CacheBeforeFetch ==
    [][\A u \in Urls :
          ResolvesUrl(u) =>
              LET c == lastCall'
                  mp == MetadataPath(u)
              IN /\ c.lookups = 1
                 /\ c.branch = "hit" =>
                        /\ c.fetches = 0
                        /\ c.err = "nil"
                        /\ c.path = metadata[mp].repoPath
                        /\ metadata' = metadata
                 /\ c.fetches > 0 => c.branch \in {"absent", "expired", "missing"}
                 /\ (c.fetched /\ c.fault = "none") =>
                        /\ c.stored
                        /\ metadata'[mp].kind = "entry"
                        /\ metadata'[mp].repoPath = c.path
                 /\ (/\ latestStore[u].stored
                     /\ now < latestStore[u].at + TTL
                     /\ latestStore[u].repoPath \in dirs)
                        => (c.branch = "hit" /\ c.path = latestStore[u].repoPath)]_vars

\* C13: a resolution calls the fetch at most once; when the fetch fails the
\* resolution returns the clone error and the URL has no cache entry; and a
\* resolution writes a cache entry only for the URL it fetched
\* successfully.
C13_NoEntryWithoutFetch ==
    [][lastCall'.op = "resolve" =>
          LET c == lastCall' IN
          /\ c.fetches <= 1
          /\ (c.fetches = 1 /\ ~c.fetched) =>
                 /\ c.err = "clone"
                 /\ metadata'[MetadataPath(c.config.URL)].kind # "entry"
          /\ \A v \in Urls :
                 (/\ metadata'[MetadataPath(v)].kind = "entry"
                  /\ metadata'[MetadataPath(v)] # metadata[MetadataPath(v)])
                     => (v = c.config.URL /\ c.fetches = 1 /\ c.fetched)]_vars

\* A resolution has just failed in its one fetch: the URL has no metadata
\* file, while the other URL still has its entry.
C13_Witness ==
    /\ lastCall.op = "resolve"
    /\ lastCall.fetches = 1
    /\ ~lastCall.fetched
    /\ lastCall.err = "clone"
    /\ metadata[MetadataPath(lastCall.config.URL)] = NoFile
    /\ \E v \in Urls \ {lastCall.config.URL} :
           metadata[MetadataPath(v)].kind = "entry"

\* C14 (as the specification states it): when the metadata file of the URL
\* is there and cannot be parsed, the lookup returns an error and the
\* resolution fails without a fetch and without changing the metadata; when
\* the file is absent the lookup is a miss without error.
C14_ReadErrorSurfaced ==
    [][\A u \in Urls :
          ResolvesUrl(u) =>
              LET c == lastCall'
                  kind == metadata[MetadataPath(u)].kind
              IN /\ kind = "corrupt" =>
                        /\ c.branch = "unreadable"
                        /\ c.err # "nil"
                        /\ c.fetches = 0
                        /\ metadata' = metadata
                 /\ kind = "absent" => (c.branch = "absent" /\ c.err # "cache")]_vars

\* The entry of the URL is valid: unexpired, with its directory present.
Valid(u) ==
    LET entry == metadata[MetadataPath(u)] IN
    /\ entry.kind = "entry"
    /\ now < entry.expiresAt
    /\ entry.repoPath \in dirs

\* Every repository directory is the directory of some entry.
NoOrphanDirectory ==
    \A p \in dirs :
        \E u \in Urls : /\ metadata[MetadataPath(u)].kind = "entry"
                        /\ metadata[MetadataPath(u)].repoPath = p

\* C15 (as the specification states it): between operations no repository
\* directory is without a metadata file that refers to it; a lookup finds
\* an entry iff it is valid (now < expiry and the directory exists); after
\* a lookup that found the entry invalid, and no new fetch, neither the
\* metadata nor the directory remains; and the entry a resolution leaves
\* has its directory.
C15_ValidOrGone ==
    /\ []NoOrphanDirectory
    /\ [][\A u \in Urls :
             ResolvesUrl(u) =>
                 LET c == lastCall'
                     entry == metadata[MetadataPath(u)]
                     after == metadata'[MetadataPath(u)]
                 IN /\ c.branch = "hit" <=> Valid(u)
                    /\ (c.branch \in {"expired", "missing"} /\ ~c.fetched) =>
                           /\ after = NoFile
                           /\ entry.repoPath \notin dirs'
                    /\ after.kind = "entry" => after.repoPath \in dirs']_vars

\* The step changes the entry of u: its metadata file, or the directory it
\* refers to (removed, or replaced by another clone).
Touched(u) ==
    LET entry == metadata[MetadataPath(u)] IN
    /\ entry.kind = "entry"
    /\ \/ metadata'[MetadataPath(u)] # entry
       \/ /\ entry.repoPath \in dirs
          /\ \/ entry.repoPath \notin dirs'
             \/ checkout'[entry.repoPath] # checkout[entry.repoPath]

\* C16 (as the specification states it): the program changes the metadata
\* file or the directory of a URL's entry only in a resolution of that
\* URL whose lookup finds the entry expired or its directory missing.
C16_OnlyOwnLookupRemoves ==
    [][\A u \in Urls :
          (Touched(u) /\ lastCall'.op = "resolve")
              => (ResolvesUrl(u) /\ lastCall'.branch \in {"expired", "missing"})]_vars

\* The step is a resolution of a configuration with a local path and no
\* URL.
ResolvesLocalPath ==
    /\ lastCall'.op = "resolve"
    /\ lastCall'.config.Path # ""
    /\ lastCall'.config.URL = ""

\* C17 (as the specification states it): a resolution of a local path
\* returns exactly that path, without a lookup, a fetch or a change of the
\* cache.
C17_LocalPathReturned ==
    [][ResolvesLocalPath =>
          /\ lastCall'.path = lastCall'.config.Path
          /\ lastCall'.err = "nil"
          /\ lastCall'.lookups = 0
          /\ lastCall'.fetches = 0
          /\ CacheUntouched]_vars

\* C17 (amended): a resolution of a local path makes no lookup, no fetch
\* and no change of the cache; it returns exactly that path, except that
\* the command line returns an error when no directory exists at the path.
C17_LocalPathOrNoDirectory ==
    [][ResolvesLocalPath =>
          LET c == lastCall' IN
          /\ c.lookups = 0
          /\ c.fetches = 0
          /\ CacheUntouched
          /\ IF c.package = "main" /\ c.config.Path \notin LocalDirs
             THEN c.err = "nolocal" /\ c.path = ""
             ELSE c.err = "nil" /\ c.path = c.config.Path]_vars

\* A resolution has just returned the local path it was given, while the
\* cache holds an entry and a repository directory.
C17_Witness ==
    /\ lastCall.op = "resolve"
    /\ lastCall.config = [URL |-> "", Path |-> LocalProject]
    /\ lastCall.path = LocalProject
    /\ lastCall.err = "nil"
    /\ lastCall.lookups = 0
    /\ dirs # {}
    /\ \E u \in Urls : metadata[MetadataPath(u)].kind = "entry"

\* C18: a resolution of a configuration with neither a URL nor a local path
\* fails with the configuration error, without a lookup, a fetch or a
\* change of the cache.
C18_NoSourceIsAnError ==
    [][(/\ lastCall'.op = "resolve"
        /\ lastCall'.config = [URL |-> "", Path |-> ""])
          => /\ lastCall'.err = "config"
             /\ lastCall'.lookups = 0
             /\ lastCall'.fetches = 0
             /\ CacheUntouched]_vars

\* A resolution without a source has just failed with the configuration
\* error, while the cache holds an entry and a repository directory.
C18_Witness ==
    /\ lastCall.op = "resolve"
    /\ lastCall.config = [URL |-> "", Path |-> ""]
    /\ lastCall.err = "config"
    /\ dirs # {}
    /\ \E u \in Urls : metadata[MetadataPath(u)].kind = "entry"

\* C19 (as the specification states it): a resolution of a configuration
\* with both a URL and a local path fails with the configuration error,
\* without a lookup, a fetch or a change of the cache, from the command
\* line and in a TUI session.
C19_BothSourcesRejected ==
    [][(/\ lastCall'.op = "resolve"
        /\ lastCall'.config.URL # ""
        /\ lastCall'.config.Path # "")
          => /\ lastCall'.err = "config"
             /\ lastCall'.lookups = 0
             /\ lastCall'.fetches = 0
             /\ CacheUntouched]_vars

(***************************************************************************)
(* Properties of the scans: pattern validation (SpecScan)                  *)
(***************************************************************************)

\* The pattern is one that the matchesPattern of the package compiles, and
\* the compilation fails.
MainFailsToCompile(pattern) ==
    ~main_isPathPattern(pattern) /\ ~CompileOK(pattern)

TuiFailsToCompile(pattern) ==
    ~tui_isPathPattern(pattern) /\ ~CompileOK(tui_regexPattern(pattern))

\* The result r of a scan of the current inputs, in a package where Fails
\* tells the patterns that fail to compile: with such a pattern among the
\* user's, r is an error with empty lists and no entry visited; and when an
\* entry was visited, no pattern the traversal matches with fails to
\* compile.
FailsFast(r, Fails(_)) ==
    /\ (\E p \in Range(exclusions) \cup Range(inclusions) : Fails(p)) =>
           /\ r.err \in {"exclusion", "inclusion"}
           /\ r.included = << >>
           /\ r.visited = 0
    /\ r.visited > 0 =>
           \A p \in Range(exclusions) \cup Range(defaultExclusionPatterns)
                        \cup Range(inclusions) : ~Fails(p)

\* C20: when a user exclusion or inclusion pattern that is no path pattern
\* fails to compile (after the glob translation in package tui), the scan
\* returns an error and empty lists without having visited an entry of the
\* tree; so a traversal never meets a pattern that fails to compile.
C20_InvalidPatternFailsFast ==
    /\ Ran(mainCollect) => FailsFast(mainCollect, MainFailsToCompile)
    /\ Ran(mainDryRun) =>
           /\ FailsFast(mainDryRun, MainFailsToCompile)
           /\ mainDryRun.visited = 0 => mainDryRun.excluded = << >>
    /\ Ran(tuiCollect) => FailsFast(tuiCollect, TuiFailsToCompile)
    /\ Ran(tuiDryRun) =>
           /\ FailsFast(tuiDryRun, TuiFailsToCompile)
           /\ tuiDryRun.visited = 0 => tuiDryRun.excluded = << >>

\* Both dry runs have failed on the inclusion pattern that does not
\* compile, with valid exclusion patterns and a tree that has files.
C20_Witness ==
    /\ inclusions = <<Pat_bad>>
    /\ exclusions = <<Glob_main, Pat_pkg>>
    /\ FilePaths(scanRoot) # {}
    /\ Ran(mainDryRun) /\ mainDryRun.err \in {"exclusion", "inclusion"}
    /\ Ran(tuiDryRun) /\ tuiDryRun.err = "inclusion"
    /\ mainDryRun.visited = 0 /\ tuiDryRun.visited = 0

(***************************************************************************)
(* Properties of the scans: errors of the walk and of the classifier       *)
(***************************************************************************)

\* C21 (as the specification states it): a scan that ends with a walk error
\* returns empty lists.
C21_NoPartialResult ==
    /\ (Ran(mainCollect) /\ mainCollect.err = "walk") =>
           mainCollect.included = << >>
    /\ (Ran(mainDryRun) /\ mainDryRun.err = "walk") =>
           (mainDryRun.included = << >> /\ mainDryRun.excluded = << >>)
    /\ (Ran(tuiCollect) /\ tuiCollect.err = "walk") =>
           tuiCollect.included = << >>
    /\ (Ran(tuiDryRun) /\ tuiDryRun.err = "walk") =>
           (tuiDryRun.included = << >> /\ tuiDryRun.excluded = << >>)

\* The file at path cannot be opened, or cannot be read.
CannotBeRead(path) == Stat(path).openErr \/ Stat(path).readErr

\* What C22 says of one scan's result: it is no error but a pattern's, and
\* when the scan ended without error it visited the whole tree and did not
\* include the file f.
GoesOnWithout(r, f) ==
    /\ r.err \in {"nil", "exclusion", "inclusion"}
    /\ r.err = "nil" =>
           /\ r.visited = Len(Walk(scanRoot))
           /\ f \notin Range(r.included)

\* C22: a file that cannot be opened or read is not text for both
\* classifiers; on a tree without walk error every scan that ran goes on to
\* the end of the tree, returns no error because of the file and does not
\* include it, and the dry runs have it in the excluded list.
C22_UnreadableIsExcluded ==
    \A f \in {g \in FilePaths(scanRoot) : CannotBeRead(g)} :
        /\ ~main_isTextFile(f)
        /\ ~tui_isTextFile(f)
        /\ (\A e \in Range(Walk(scanRoot)) : ~e.walkErr) =>
               /\ Ran(mainCollect) => GoesOnWithout(mainCollect, f)
               /\ Ran(tuiCollect) => GoesOnWithout(tuiCollect, f)
               /\ Ran(mainDryRun) =>
                      /\ GoesOnWithout(mainDryRun, f)
                      /\ mainDryRun.err = "nil" => f \in Range(mainDryRun.excluded)
               /\ Ran(tuiDryRun) =>
                      /\ GoesOnWithout(tuiDryRun, f)
                      /\ tuiDryRun.err = "nil" => f \in Range(tuiDryRun.excluded)

\* Both dry runs ended without error on the classifier's tree: the file
\* that cannot be read and the file that cannot be opened are excluded, and
\* a file the walk visits after them is included.
C22_Witness ==
    /\ scanRoot = RootC
    /\ inclusions = <<Pat_go>>
    /\ Ran(mainDryRun) /\ mainDryRun.err = "nil"
    /\ Ran(tuiDryRun) /\ tuiDryRun.err = "nil"
    /\ Ran(mainCollect) /\ mainCollect.err = "nil"
    /\ {Join(RootC, P_io_go), Join(RootC, P_locked_go)}
           \subseteq (Range(mainDryRun.excluded) \cap Range(tuiDryRun.excluded))
    /\ Join(RootC, P_z_go) \in Range(mainDryRun.included) \cap Range(tuiDryRun.included)
    /\ Join(RootC, P_z_go) \in Range(mainCollect.included)

\* C27 (as the specification states it): on the same tree and pattern
\* lists the collections of package tui return the included list that
\* collectFiles of package main returns, and the two classifiers agree on
\* every file.
C27_SameIncludedFiles ==
    /\ \A f \in FilePaths(scanRoot) : main_isTextFile(f) <=> tui_isTextFile(f)
    /\ (Ran(mainCollect) /\ Ran(tuiCollect)) =>
           /\ tuiCollect.included = mainCollect.included
           /\ tuiCollect.err = mainCollect.err
    /\ (Ran(mainCollect) /\ Ran(tuiDryRun)) =>
           tuiDryRun.included = mainCollect.included

\* The file at path can be opened and read, and has no null byte among its
\* first SampleSize bytes.
ReadableWithoutNull(path) ==
    LET file == Stat(path) IN
    /\ ~file.openErr /\ ~file.readErr
    /\ ~\E i \in file.nulls : i <= SampleSize /\ i <= file.size

\* C28 (as the specification states it): a file that can be opened and
\* read and has no null byte among its first 512 bytes, whatever its
\* length, is text for both classifiers, and a dry run without user
\* patterns has it in the excluded list only if a built-in exclusion
\* pattern matches it.
C28_NoNullIsText ==
    \A f \in {g \in FilePaths(scanRoot) : ReadableWithoutNull(g)} :
        /\ main_isTextFile(f)
        /\ tui_isTextFile(f)
        /\ (exclusions = << >> /\ inclusions = << >>) =>
               /\ (Ran(mainDryRun) /\ f \in Range(mainDryRun.excluded)) =>
                      \E p \in Range(defaultExclusionPatterns) : MainMatches(p, f)
               /\ (Ran(tuiDryRun) /\ f \in Range(tuiDryRun.excluded)) =>
                      \E p \in Range(defaultExclusionPatterns) : TuiMatches(p, f)

(***************************************************************************)
(* Properties of the cache: the expiry is fixed at the store (SpecCache)   *)
(***************************************************************************)

\* The entry of every URL is the one its latest store wrote: cached at the
\* time of the store, expiring TTL later.
EntryAsStored ==
    \A u \in Urls :
        LET entry == metadata[MetadataPath(u)] IN
        /\ entry.kind = "entry" => entry.expiresAt = entry.cachedAt + TTL
        /\ latestStore[u].stored =>
               /\ entry.kind = "entry"
               /\ entry.cachedAt = latestStore[u].at
               /\ entry.expiresAt = latestStore[u].at + TTL

\* C23: a lookup that hits changes no metadata file and no directory; the
\* entry of a URL stays the one its store at time t wrote, which expires at
\* t + TTL; a lookup before t + TTL with the directory present is a hit and
\* a lookup after t + TTL is not, whatever lookups came in between.
C23_ExpiryNotExtended ==
    /\ []EntryAsStored
    /\ [][\A u \in Urls :
             GetCachedRepo(u) =>
                 LET entry == metadata[MetadataPath(u)] IN
                 /\ lastCall'.found =>
                        /\ metadata' = metadata
                        /\ dirs' = dirs
                        /\ lastCall'.cachedAt = entry.cachedAt
                 /\ entry.kind = "entry" =>
                        /\ (now < entry.cachedAt + TTL /\ entry.repoPath \in dirs)
                               => lastCall'.found
                        /\ now > entry.cachedAt + TTL => ~lastCall'.found]_vars

\* A lookup has just hit an entry that was stored earlier, in the last
\* minute before its expiry, and the entry is as the store wrote it.
C23_Witness ==
    /\ lastCall.op = "getCachedRepo"
    /\ lastCall.found
    /\ latestStore[lastCall.url].stored
    /\ lastCall.cachedAt = latestStore[lastCall.url].at
    /\ now = lastCall.cachedAt + TTL - 1
    /\ metadata[MetadataPath(lastCall.url)].expiresAt = lastCall.cachedAt + TTL

(***************************************************************************)
(* Properties of the resolutions: whose checkout a directory holds         *)
(***************************************************************************)

\* Every valid entry points to a directory that holds the clone of the
\* entry's own URL; so no two URLs with valid entries share a directory.
OwnCheckout ==
    \A u \in Urls :
        Valid(u) =>
            /\ checkout[metadata[MetadataPath(u)].repoPath] = u
            /\ \A v \in Urls \ {u} :
                   Valid(v) => metadata[MetadataPath(v)].repoPath
                                   # metadata[MetadataPath(u)].repoPath

\* C26 (as the specification states it): every valid entry points to a
\* directory that holds the clone of its own URL, a hit for a URL returns
\* such a directory, and a resolution of one URL leaves the directory of
\* another URL's valid entry and what it holds as they are.
C26_HitReturnsOwnCheckout ==
    /\ []OwnCheckout
    /\ [][\A u \in Urls :
             /\ (ResolvesUrl(u) /\ lastCall'.branch = "hit") =>
                    checkout[lastCall'.path] = u
             /\ (Valid(u) /\ lastCall'.op = "resolve" /\ lastCall'.config.URL # u) =>
                    LET path == metadata[MetadataPath(u)].repoPath IN
                    /\ path \in dirs'
                    /\ checkout'[path] = checkout[path]]_vars

(***************************************************************************)
(* Properties of the command-line run with -peek (SpecRun)                 *)
(***************************************************************************)

\* The run has read the answer y or yes (in any letter case, within any
\* white space, which the run removes before it compares).
AnsweredYes ==
    /\ response.read
    /\ response.text \in {<<"y">>, <<"y", "e", "s">>}

\* With -peek: files are collected and the output file is written only
\* with the dry-run result shown and the prompt answered y or yes; and
\* after any other answer the run has ended, with no files collected and
\* no output file.
ConfirmedFirst ==
    peek =>
        /\ (Ran(mainCollect) \/ output.written) =>
               /\ shown.done
               /\ Ran(mainDryRun)
               /\ shown.included = Len(mainDryRun.included)
               /\ AnsweredYes
        /\ (response.read /\ ~AnsweredYes) =>
               /\ pc = "cancelled"
               /\ ~Ran(mainCollect)
               /\ ~output.written

\* C24: in a run with -peek the dry-run result is shown before an output
\* file is written, the output file is written only after the prompt was
\* answered y or yes, and after any other answer the run ends without
\* collecting files or writing an output file.
C24_PeekConfirmsBeforeOutput ==
    /\ []ConfirmedFirst
    /\ [][peek =>
             /\ (output'.written /\ ~output.written) =>
                    (shown.done /\ AnsweredYes /\ pc = "collect")
             /\ pc = "cancelled" => UNCHANGED <<mainCollect, output, pc>>]_vars

\* A run with -peek has written its output file after the answer " YES ",
\* and the file holds the files the dry run showed.
C24_Witness ==
    /\ peek
    /\ output.written
    /\ Len(output.files) > 0
    /\ shown.done
    /\ shown.included = Len(output.files)
    /\ response = [read |-> TRUE, text |-> <<"y", "e", "s">>]

(***************************************************************************)
(* Properties of a TUI session (SpecSession)                               *)
(***************************************************************************)

\* Two commands that run at once.
RunAtOnce(c, d) ==
    /\ BagIn(c, running)
    /\ BagIn(d, running)
    /\ c # d \/ CopiesIn(c, running) >= 2

\* C25: at no time in a TUI session are two resolutions, or a resolution
\* and a scan, of the same URL in progress at once.
C25_NoOverlapOnOneUrl ==
    \A c, d \in BagToSet(running) :
        (/\ RunAtOnce(c, d)
         /\ c.config.URL \in Urls
         /\ c.config.URL = d.config.URL
         /\ c.phase = "resolve")
        => d.phase \notin {"resolve", "scan"}

\* C29: in the results view the error the session holds is the outcome of
\* the processing run that led to the view (nil iff the run succeeded).
C29_ErrIsOutcomeOfRun ==
    model.state = "resultsView" => model.err = ledTo

FlagIffProcessingView ==
    model.processing <=> model.state = "processingView"

\* C30: the processing flag is true iff the session is in the processing
\* view; the view is entered only by Enter on Process Now (focus 6 of the
\* configuration view), in the peek view or in the file browser; in it every
\* key other than esc and ctrl+c leaves the model unchanged; and it is left
\* only by the processing-complete message, to the results view.
C30_ProcessingViewAndFlag ==
    /\ []FlagIffProcessingView
    /\ [][/\ (model.state # "processingView" /\ model'.state = "processingView")
             => /\ Press("enter")
                /\ \/ model.state = "configView" /\ model.focused = 6
                   \/ model.state \in {"peekView", "fileBrowserView"}
          /\ model.state = "processingView"
             => \A key \in Keys \ {"esc", "ctrl+c"} :
                    Press(key) => model' = model
          /\ (model.state = "processingView" /\ model'.state # "processingView")
             => /\ model'.state = "resultsView"
                /\ \E c \in BagToSet(running), ok \in BOOLEAN :
                       /\ c.kind = "process"
                       /\ CommandReturn(c, ok)]_vars

\* The session is in the processing view, reached from the peek view while
\* the peek still runs.
C30_Witness ==
    /\ model.state = "processingView"
    /\ model.processing
    /\ \E c \in BagToSet(running) : c.kind = "peek"
    /\ \E c \in BagToSet(running) : c.kind = "process"

====
